---- MODULE Spec2Model ----
(***************************************************************************)
(* A model of the lesson graphs of langgraph-essentials: the state         *)
(* schemas, reducers, node functions, routing functions and graph wiring   *)
(* of the lesson scripts, run by the round-based graph runner the scripts  *)
(* compile them with (tasks of a round run on the round's start state,     *)
(* their writes are merged at the end of the round through the field's     *)
(* reducer, then the edges select the next round).                         *)
(***************************************************************************)
EXTENDS Integers, Sequences, FiniteSets, TLC

VARIABLES g, input, script, run, store, log

vars == <<g, input, script, run, store, log>>

(***************************************************************************)
(* Bounds of the model.                                                    *)
(***************************************************************************)
MaxInitLen == 1
MaxItems == 3
MaxNumber == 3
MaxToolCalls == 2
MaxOps == 3
MaxInputLen == 7
MaxBranchWrites == 3
MaxThreadOps == 5
MaxLogs == 2

(* Most queries the caller passes to the two-stage map-reduce graph. *)
MaxQueries == 2

(* Longest list the caller passes to the graph that keeps 3 messages. *)
MaxLimitedInput == 4

(* Longest list the caller passes to the graph with the sorting reducer. *)
MaxSortInput == 2

(***************************************************************************)
(* Sequence helpers.                                                       *)
(***************************************************************************)
Range(s) == {s[i] : i \in 1..Len(s)}

Count(s, x) == Cardinality({i \in 1..Len(s) : s[i] = x})

RECURSIVE SeqSum(_)
SeqSum(s) == IF Len(s) = 0 THEN 0 ELSE Head(s) + SeqSum(Tail(s))

RECURSIVE Flatten(_)
Flatten(ss) == IF Len(ss) = 0 THEN <<>> ELSE Head(ss) \o Flatten(Tail(ss))

SeqsUpTo(S, n) == UNION {[1..k -> S] : k \in 0..n}

Perms(n) == {p \in [1..n -> 1..n] : \A i, j \in 1..n : p[i] = p[j] => i = j}

EmptyRec == [x \in {} |-> 0]

START == "__start__"

END == "__end__"

(***************************************************************************)
(* Messages.  A message is a record: its type ("human", "ai", "tool"),     *)
(* its content (text, and num for a tool's numeric result), the tool calls *)
(* an AI message carries, and its id (0: no id yet).                       *)
(***************************************************************************)
Msg(type, text, num, calls) ==
    [type |-> type, text |-> text, num |-> num, calls |-> calls, id |-> 0]

HumanMessage(text) == Msg("human", text, 0, <<>>)

AIMessage(text) == Msg("ai", text, 0, <<>>)

ToolCall(name, a, b) == [name |-> name, a |-> a, b |-> b]

(* RemoveMessage(id=...) *)
RemoveMessage(id) == [Msg("remove", "", 0, <<>>) EXCEPT !.id = id]

RECURSIVE MaxId(_)
MaxId(ms) ==
    IF Len(ms) = 0 THEN 0
    ELSE LET r == MaxId(Tail(ms))
         IN  IF Head(ms).id > r THEN Head(ms).id ELSE r

RECURSIVE AssignIds(_, _)
AssignIds(ms, base) ==
    IF Len(ms) = 0 THEN <<>>
    ELSE IF Head(ms).id = 0
         THEN <<[Head(ms) EXCEPT !.id = base + 1]>> \o AssignIds(Tail(ms), base + 1)
         ELSE <<Head(ms)>> \o AssignIds(Tail(ms), base)

RECURSIVE MergeById(_, _)
MergeById(merged, right) ==
    IF Len(right) = 0 THEN merged
    ELSE LET m == Head(right)
             hit == {i \in 1..Len(merged) : merged[i].id = m.id}
         IN  IF m.type = "remove"
             THEN MergeById(SelectSeq(merged, LAMBDA x : x.id # m.id), Tail(right))
             ELSE IF hit # {}
             THEN MergeById([merged EXCEPT ![CHOOSE i \in hit : TRUE] = m], Tail(right))
             ELSE MergeById(Append(merged, m), Tail(right))

(***************************************************************************)
(* Reducers.                                                               *)
(***************************************************************************)
operator_add(a, b) == a \o b

(* sum_reducer that replaces instead of summing. *)
sum_reducer_replace(existing, new) == new

sum_reducer(existing, new) == existing + new

(* add_messages that appends whatever the ids. *)
add_messages_append(left, right) ==
    LET base == IF MaxId(left) > MaxId(right) THEN MaxId(left) ELSE MaxId(right)
    IN  AssignIds(left, base) \o AssignIds(right, base + Len(left))

add_messages(left, right) ==
    LET base == IF MaxId(left) > MaxId(right) THEN MaxId(left) ELSE MaxId(right)
        l == AssignIds(left, base)
        r == AssignIds(right, base + Len(left))
    IN  MergeById(l, r)

(* Python's order on str, for the strings that reach a sorted list. *)
StrOrder == <<"I'm A", "I'm B", "I'm B2", "I'm C", "I'm D", "Message 0">>

StrRank(v) == CHOOSE i \in 1..Len(StrOrder) : StrOrder[i] = v

(* v put into a sorted list after the elements that are <= v (sorted is    *)
(* stable).                                                                *)
RECURSIVE Insort(_, _)
Insort(sq, v) ==
    IF Len(sq) = 0 THEN <<v>>
    ELSE IF StrRank(v) < StrRank(Head(sq)) THEN <<v>> \o sq
    ELSE <<Head(sq)>> \o Insort(Tail(sq), v)

(* sorted(list, reverse=False). *)
RECURSIVE sorted(_)
sorted(sq) == IF Len(sq) = 0 THEN <<>> ELSE Insort(sorted(SubSeq(sq, 1, Len(sq) - 1)), sq[Len(sq)])

(* sorting_reducer that only concatenates. *)
sorting_reducer_unsorted(left, right) == left \o right

sorting_reducer(left, right) == sorted(left \o right)

(* keep_last_3_messages that keeps the first 3. *)
keep_last_3_messages_first(existing, new) ==
    LET combined == existing \o new
    IN  SubSeq(combined, 1, IF Len(combined) < 3 THEN Len(combined) ELSE 3)

(* combined[-3:] *)
keep_last_3_messages(existing, new) ==
    LET combined == existing \o new
    IN  SubSeq(combined, IF Len(combined) < 3 THEN 1 ELSE Len(combined) - 2, Len(combined))

ReducerApply(r, a, b) ==
    CASE r = "add" -> operator_add(a, b)
      [] r = "keep_last_3_messages" -> keep_last_3_messages(a, b)
      [] r = "sorting_reducer" -> sorting_reducer(a, b)
      [] r = "sum_reducer" -> sum_reducer(a, b)
      [] r = "add_messages" -> add_messages(a, b)

ReducerDefault(r) ==
    CASE r = "add" -> <<>>
      [] r = "keep_last_3_messages" -> <<>>
      [] r = "sorting_reducer" -> <<>>
      [] r = "sum_reducer" -> 0
      [] r = "add_messages" -> <<>>

RECURSIVE FoldReducer(_, _, _)
FoldReducer(r, acc, ws) ==
    IF Len(ws) = 0 THEN acc
    ELSE FoldReducer(r, ReducerApply(r, acc, Head(ws)), Tail(ws))

(***************************************************************************)
(* The lesson graphs.  Each is named after the script's variable or the    *)
(* example that builds it.                                                 *)
(***************************************************************************)
Graphs ==
    {"graph_without", "graph_with", "app_graph", "counter_graph",
     "linear", "par_noreducer", "par_reducer", "uneven",
     "graph_1", "graph_3", "agent", "agent_bp", "dyn", "merge_round",
     "approval", "simple_graph", "typed_dict_graph", "graph_v1",
     "schemas_v1", "graph_v2", "chatbot_io", "entry_graph",
     "graph_edit_before", "graph_with_feedback", "sorting",
     "graph_4", "graph_2", "limited_graph"}

(* The state schemas: the reducer each declares for a field ("none": the   *)
(* field has no reducer).                                                  *)
(* StateWithoutReducer declared with the appending reducer. *)
StateWithoutReducer_add == [messages |-> "add"]

StateWithoutReducer == [messages |-> "none"]

(* StateWithReducer declared without its reducer. *)
StateWithReducer_none == [messages |-> "none"]

StateWithReducer == [messages |-> "add"]

MessagesState == [messages |-> "add_messages"]

MyAppState == [messages |-> "add_messages", user_name |-> "none"]

CounterState == [count |-> "sum_reducer", name |-> "none"]

(* SimpleState declared with the appending reducer. *)
SimpleState_add == [state |-> "add"]

SimpleState == [state |-> "none"]

StateWithReducer_parallel == [state |-> "add"]

StateWithSorting == [state |-> "sorting_reducer"]

LimitedChatState == [messages |-> "keep_last_3_messages"]

BasicState == [numbers |-> "none", squared |-> "add", sum_of_squares |-> "none"]

MultiTopicState ==
    [topics |-> "none", topic_reports |-> "add", final_summary |-> "none"]

(* ResearchState of the document research example. *)
ResearchState ==
    [queries |-> "none", documents |-> "add", summaries |-> "add", final_report |-> "none"]

State == [input |-> "none"]

ApprovalState == [amount |-> "none", user_id |-> "none", approved |-> "none"]

(* State of 01_simple_graph. *)
SimpleGraphState == [graph_state |-> "none"]

TypedDictState == [name |-> "none", mood |-> "none"]

(* State(MessagesState) of the summarizing chatbot. *)
ChatbotState == [messages |-> "add_messages", summary |-> "none"]

(* The states of multiple-schemas. *)
OverallStateV1 == [question |-> "none", answer |-> "none", notes |-> "none"]

OverallStateV2 == [question |-> "none", answer |-> "none", notes |-> "none"]

ChatInternalState ==
    [user_message |-> "none", response |-> "none", debug_info |-> "none",
     api_calls |-> "none", timestamp |-> "none"]

(* The keys of the input and output schemas. *)
InputState == {"question"}

(* OutputState declared with the notes field. *)
OutputState_with_notes == {"answer", "notes"}

OutputState == {"answer"}

ChatInputState == {"user_message"}

ChatOutputState == {"response"}

(* The states of the log-analysis graphs of 02_sub_graphs. *)
FailureAnalysisState ==
    [cleaned_logs |-> "none", failures |-> "none", fa_summary |-> "none",
     processed_logs |-> "none"]

(* FailureAnalysisOutputState that also returns cleaned_logs. *)
FailureAnalysisOutputState_all == {"fa_summary", "processed_logs", "cleaned_logs"}

FailureAnalysisOutputState == {"fa_summary", "processed_logs"}

QuestionSummarizationState ==
    [cleaned_logs |-> "none", qs_summary |-> "none", report |-> "none",
     processed_logs |-> "none"]

QuestionSummarizationOutputState == {"report", "processed_logs"}

(* The schemas of the research assistant with the analysis sub-graph. *)
AnalysisState == [raw_data |-> "none", key_facts |-> "none", summary |-> "none"]

AnalysisOutputState == {"summary"}

ResearchWithAnalysisState ==
    [query |-> "none", search_results |-> "add", summary |-> "none", final_report |-> "none"]

EntryGraphState ==
    [raw_logs |-> "none", cleaned_logs |-> "none", fa_summary |-> "none",
     report |-> "none", processed_logs |-> "add"]

(* StateGraph(schema) *)
Schema(gr) ==
    CASE gr = "graph_without" -> StateWithoutReducer
      [] gr = "graph_with" -> StateWithReducer
      [] gr = "app_graph" -> MyAppState
      [] gr \in {"counter_graph", "merge_round"} -> CounterState
      [] gr \in {"linear", "par_noreducer"} -> SimpleState
      [] gr \in {"par_reducer", "uneven"} -> StateWithReducer_parallel
      [] gr = "sorting" -> StateWithSorting
      [] gr = "limited_graph" -> LimitedChatState
      [] gr = "graph_1" -> BasicState
      [] gr = "graph_3" -> MultiTopicState
      [] gr = "graph_4" -> ResearchState
      [] gr \in {"agent", "agent_bp", "agent_no_bp", "time_travel", "memory_agent",
                  "graph_v1", "graph_edit_before", "graph_with_feedback"} ->
           MessagesState
      [] gr = "chatbot" -> ChatbotState
      [] gr = "dyn" -> State
      [] gr = "approval" -> ApprovalState
      [] gr = "simple_graph" -> SimpleGraphState
      [] gr = "typed_dict_graph" -> TypedDictState
      [] gr = "schemas_v1" -> OverallStateV1
      [] gr = "graph_v2" -> OverallStateV2
      [] gr = "chatbot_io" -> ChatInternalState
      [] gr = "fa_graph" -> FailureAnalysisState
      [] gr = "qs_graph" -> QuestionSummarizationState
      [] gr = "analysis_graph" -> AnalysisState
      [] gr = "graph_2" -> ResearchWithAnalysisState
      [] gr = "entry_graph" -> EntryGraphState

(* StateGraph(schema, output_schema=...): the keys returned to the caller; *)
(* the whole schema when no output schema is given.                        *)
OutputKeys(gr) ==
    CASE gr = "graph_v2" -> OutputState
      [] gr = "chatbot_io" -> ChatOutputState
      [] gr = "fa_graph" -> FailureAnalysisOutputState
      [] gr = "qs_graph" -> QuestionSummarizationOutputState
      [] gr = "analysis_graph" -> AnalysisOutputState
      [] OTHER -> DOMAIN Schema(gr)

Reducer(gr, f) == IF f \in DOMAIN Schema(gr) THEN Schema(gr)[f] ELSE "none"

(* The fields of a schema that carry a reducer. *)
ReducerFields(gr) == {f \in DOMAIN Schema(gr) : Schema(gr)[f] # "none"}

(* The nodes of a graph, in the order add_node registers them. *)
NodeOrder(gr) ==
    CASE gr \in {"graph_without", "graph_with"} -> <<"node_1", "node_2">>
      [] gr = "app_graph" -> <<"greet", "question">>
      [] gr = "counter_graph" -> <<"add5", "add3">>
      [] gr \in {"linear", "par_noreducer", "par_reducer"} -> <<"a", "b", "c", "d">>
      [] gr \in {"uneven", "sorting"} -> <<"a", "b", "b2", "c", "d">>
      [] gr = "limited_graph" -> <<"msg1", "msg2", "msg3", "msg4", "msg5">>
      [] gr = "graph_1" -> <<"square_number", "sum_squares">>
      [] gr = "graph_3" -> <<"research_topic", "combine_research">>
      [] gr = "graph_4" -> <<"search_query", "summarize_doc", "create_report">>
      [] gr \in {"agent", "agent_bp", "agent_no_bp", "time_travel", "memory_agent",
                  "graph_edit_before"} ->
           <<"assistant", "tools">>
      [] gr = "chatbot" -> <<"conversation", "summarize_conversation">>
      [] gr = "dyn" -> <<"step_1", "step_2", "step_3">>
      [] gr = "merge_round" -> <<"add5", "add3">>
      [] gr = "approval" -> <<"validate", "execute">>
      [] gr \in {"simple_graph", "typed_dict_graph"} -> <<"node_1", "node_2", "node_3">>
      [] gr = "graph_v1" -> <<"filter", "chat_model">>
      [] gr = "graph_with_feedback" -> <<"assistant", "tools", "human_feedback">>
      [] gr \in {"schemas_v1", "graph_v2"} -> <<"thinking_node", "answer_node">>
      [] gr = "chatbot_io" -> <<"process", "finalize">>
      [] gr = "fa_graph" -> <<"get_failures", "generate_summary">>
      [] gr = "qs_graph" -> <<"generate_summary", "send_to_slack">>
      [] gr = "analysis_graph" -> <<"extract_facts", "create_summary">>
      [] gr = "graph_2" -> <<"parallel_search", "analyze_results", "create_final_report">>
      [] gr = "entry_graph" ->
           <<"clean_logs", "failure_analysis", "question_summarization">>

(* add_edge(from, to) with a single source, per builder. *)
graph_without_edges ==
    {<<START, "node_1">>, <<"node_1", "node_2">>, <<"node_2", END>>}

graph_with_edges ==
    {<<START, "node_1">>, <<"node_1", "node_2">>, <<"node_2", END>>}

app_graph_edges == {<<START, "greet">>, <<"greet", "question">>, <<"question", END>>}

counter_graph_edges == {<<START, "add5">>, <<"add5", "add3">>, <<"add3", END>>}

linear_edges ==
    {<<START, "a">>, <<"a", "b">>, <<"b", "c">>, <<"c", "d">>, <<"d", END>>}

par_noreducer_edges ==
    {<<START, "a">>, <<"a", "b">>, <<"a", "c">>, <<"b", "d">>, <<"c", "d">>, <<"d", END>>}

par_reducer_edges ==
    {<<START, "a">>, <<"a", "b">>, <<"a", "c">>, <<"b", "d">>, <<"c", "d">>, <<"d", END>>}

uneven_edges ==
    {<<START, "a">>, <<"a", "b">>, <<"a", "c">>, <<"b", "b2">>, <<"d", END>>}

(* The waiting edge into d with b2 left out of its sources. *)
uneven_join_edges_c_only == {[froms |-> {"c"}, to |-> "d"]}

(* add_edge([sources], to): the target waits for every source. *)
uneven_join_edges == {[froms |-> {"b2", "c"}, to |-> "d"]}

(* The fan-out graph of the custom reducer example. *)
sorting_edges ==
    {<<START, "a">>, <<"a", "b">>, <<"a", "c">>, <<"b", "b2">>, <<"d", END>>}

sorting_join_edges == {[froms |-> {"b2", "c"}, to |-> "d"]}

limited_graph_edges ==
    {<<START, "msg1">>, <<"msg1", "msg2">>, <<"msg2", "msg3">>, <<"msg3", "msg4">>,
     <<"msg4", "msg5">>, <<"msg5", END>>}

graph_4_edges == {<<"summarize_doc", "create_report">>, <<"create_report", END>>}

graph_1_edges == {<<"square_number", "sum_squares">>, <<"sum_squares", END>>}

graph_3_edges == {<<"research_topic", "combine_research">>, <<"combine_research", END>>}

(* The agent wired as the router lesson: tools -> END. *)
agent_edges_router == {<<START, "assistant">>, <<"tools", END>>}

agent_edges == {<<START, "assistant">>, <<"tools", "assistant">>}

(* The breakpoint graph wired as the router lesson: tools -> END. *)
agent_bp_edges_router == {<<START, "assistant">>, <<"tools", END>>}

agent_bp_edges == {<<START, "assistant">>, <<"tools", "assistant">>}

(* The three-step graph with step_2 left out of the chain. *)
dyn_edges_skip_step_2 ==
    {<<START, "step_1">>, <<"step_1", "step_3">>, <<"step_3", END>>}

dyn_edges ==
    {<<START, "step_1">>, <<"step_1", "step_2">>, <<"step_2", "step_3">>,
     <<"step_3", END>>}

time_travel_edges == {<<START, "assistant">>, <<"tools", "assistant">>}

memory_agent_edges == {<<START, "assistant">>, <<"tools", "assistant">>}

chatbot_edges == {<<START, "conversation">>, <<"summarize_conversation", END>>}

approval_edges == {<<START, "validate">>, <<"validate", "execute">>, <<"execute", END>>}

(* The simple graph with node_1 also wired straight to node_2. *)
simple_graph_edges_both == {<<START, "node_1">>, <<"node_1", "node_2">>, <<"node_2", END>>, <<"node_3", END>>}
simple_graph_edges == {<<START, "node_1">>, <<"node_2", END>>, <<"node_3", END>>}

typed_dict_graph_edges == {<<START, "node_1">>, <<"node_2", END>>, <<"node_3", END>>}

graph_v1_edges == {<<START, "filter">>, <<"filter", "chat_model">>, <<"chat_model", END>>}

schemas_v1_edges ==
    {<<START, "thinking_node">>, <<"thinking_node", "answer_node">>, <<"answer_node", END>>}

graph_v2_edges ==
    {<<START, "thinking_node">>, <<"thinking_node", "answer_node">>, <<"answer_node", END>>}

chatbot_io_edges == {<<START, "process">>, <<"process", "finalize">>, <<"finalize", END>>}

fa_graph_edges ==
    {<<START, "get_failures">>, <<"get_failures", "generate_summary">>,
     <<"generate_summary", END>>}

analysis_graph_edges ==
    {<<START, "extract_facts">>, <<"extract_facts", "create_summary">>,
     <<"create_summary", END>>}

(* The parent graph: the node analyze_results is the compiled analysis     *)
(* sub-graph.                                                              *)
graph_2_edges ==
    {<<START, "parallel_search">>, <<"parallel_search", "analyze_results">>,
     <<"analyze_results", "create_final_report">>, <<"create_final_report", END>>}

qs_graph_edges ==
    {<<START, "generate_summary">>, <<"generate_summary", "send_to_slack">>,
     <<"send_to_slack", END>>}

entry_graph_edges ==
    {<<START, "clean_logs">>, <<"clean_logs", "failure_analysis">>,
     <<"clean_logs", "question_summarization">>, <<"failure_analysis", END>>,
     <<"question_summarization", END>>}

graph_edit_before_edges == {<<START, "assistant">>, <<"tools", "assistant">>}

graph_with_feedback_edges ==
    {<<START, "human_feedback">>, <<"human_feedback", "assistant">>,
     <<"tools", "human_feedback">>}

Edges(gr) ==
    CASE gr = "graph_without" -> graph_without_edges
      [] gr = "graph_with" -> graph_with_edges
      [] gr = "app_graph" -> app_graph_edges
      [] gr = "counter_graph" -> counter_graph_edges
      [] gr = "linear" -> linear_edges
      [] gr = "par_noreducer" -> par_noreducer_edges
      [] gr = "par_reducer" -> par_reducer_edges
      [] gr = "uneven" -> uneven_edges
      [] gr = "sorting" -> sorting_edges
      [] gr = "limited_graph" -> limited_graph_edges
      [] gr = "graph_1" -> graph_1_edges
      [] gr = "graph_3" -> graph_3_edges
      [] gr = "graph_4" -> graph_4_edges
      [] gr = "agent" -> agent_edges
      [] gr \in {"agent_bp", "agent_no_bp"} -> agent_bp_edges
      [] gr = "dyn" -> dyn_edges
      [] gr = "merge_round" -> {}
      [] gr = "approval" -> approval_edges
      [] gr = "simple_graph" -> simple_graph_edges
      [] gr = "typed_dict_graph" -> typed_dict_graph_edges
      [] gr = "time_travel" -> time_travel_edges
      [] gr = "memory_agent" -> memory_agent_edges
      [] gr = "chatbot" -> chatbot_edges
      [] gr = "graph_v1" -> graph_v1_edges
      [] gr = "schemas_v1" -> schemas_v1_edges
      [] gr = "graph_v2" -> graph_v2_edges
      [] gr = "chatbot_io" -> chatbot_io_edges
      [] gr = "fa_graph" -> fa_graph_edges
      [] gr = "qs_graph" -> qs_graph_edges
      [] gr = "analysis_graph" -> analysis_graph_edges
      [] gr = "graph_2" -> graph_2_edges
      [] gr = "entry_graph" -> entry_graph_edges
      [] gr = "graph_edit_before" -> graph_edit_before_edges
      [] gr = "graph_with_feedback" -> graph_with_feedback_edges

JoinEdges(gr) ==
    CASE gr = "uneven" -> uneven_join_edges
      [] gr = "sorting" -> sorting_join_edges
      [] OTHER -> {}

(* compile() without interrupt_before. *)
InterruptBefore_none(gr) == {}

(* compile(interrupt_before=[...]) *)
InterruptBefore(gr) ==
    CASE gr = "agent_bp" -> {"tools"}
      [] gr = "graph_edit_before" -> {"assistant"}
      [] gr = "graph_with_feedback" -> {"human_feedback"}
      [] OTHER -> {}

(* compile(checkpointer=...) *)
HasCheckpointer(gr) ==
    gr \in {"agent_bp", "dyn", "approval", "time_travel", "memory_agent", "chatbot",
            "graph_edit_before", "graph_with_feedback"}

(***************************************************************************)
(* Node functions: state -> partial update.                                *)
(***************************************************************************)
node_without_reducer_1(state) == [messages |-> <<"Message 1">>]

node_without_reducer_2(state) == [messages |-> <<"Message 2">>]

node_with_reducer_1(state) == [messages |-> <<"Message 1">>]

node_with_reducer_2(state) == [messages |-> <<"Message 2">>]

greet_user(state) ==
    [messages |-> <<AIMessage(<<"Hello ", state.user_name, "! Welcome!">>)>>]

ask_question(state) ==
    [messages |-> <<HumanMessage(<<"Tell me about LangGraph">>)>>]

increment_by_5(state) == [count |-> 5]

(* increment_by_3 that also writes the name field. *)
increment_by_3_names(state) == [count |-> 3, name |-> "add3"]

increment_by_3(state) == [count |-> 3]

ReturnNodeValue(node_secret, state) == [state |-> <<node_secret>>]

square_number(state) == [squared |-> <<state.number * state.number>>]

sum_squares(state) == [sum_of_squares |-> SeqSum(state.squared)]

research_topic(state) ==
    [topic_reports |->
        <<[topic |-> state.topic,
           sources |-> Len(<<"web">>) + Len(<<"wiki">>),
           summary |-> <<"Comprehensive research on ", state.topic, " completed">>]>>]

(* The nodes of the document research example. *)
search_query(state) ==
    [documents |->
        <<[query |-> state.query,
           title |-> <<"Research paper about ", state.query>>,
           content |-> [i \in 1..3 |-> <<"This is detailed information about ",
                                         state.query, ". ">>]]>>]

summarize_doc(state) ==
    LET doc == state.document
    IN  [summaries |->
            << <<"Summary of '", doc.title, "': Key findings about ", doc.query, ".">> >>]

create_report(state) ==
    LET summaries == state.summaries
    IN  [final_report |->
            [sources |-> Len(summaries),
             lines |-> [i \in 1..Len(summaries) |-> <<i, summaries[i]>>]]]

combine_research(state) ==
    LET reports == state.topic_reports
    IN  [final_summary |->
            [topics_researched |-> Len(reports),
             total_sources |-> SeqSum([i \in 1..Len(reports) |-> reports[i].sources]),
             lines |-> [i \in 1..Len(reports) |->
                          <<i, reports[i].topic, reports[i].summary>>]]]

(* add_msg(content, is_human): the node that writes one message. *)
add_msg(content, is_human) ==
    [messages |-> <<IF is_human THEN HumanMessage(content) ELSE AIMessage(content)>>]

(* The tools of the agent lessons. *)
multiply(a, b) == a * b

add(a, b) == a + b

RunTool(call) ==
    CASE call.name = "multiply" -> multiply(call.a, call.b)
      [] call.name = "add" -> add(call.a, call.b)

(* What calling a tool gives: the value it returns, or the exception it    *)
(* raises.                                                                 *)
Returns(v) == [raised |-> FALSE, value |-> v]

Raises(e) == [raised |-> TRUE, value |-> e]

(* Python's a / b: the quotient (kept as the fraction), ZeroDivisionError  *)
(* for b = 0.                                                              *)
TrueDiv(a, b) ==
    IF b = 0 THEN Raises("ZeroDivisionError('division by zero')")
    ELSE Returns([num |-> a, den |-> b])

(* divide of the agent lesson: the zero divisor is answered with a text. *)
divide(a, b) ==
    IF b = 0 THEN Returns("Error: Division by zero is not allowed") ELSE TrueDiv(a, b)

(* divide of the breakpoints, edit-state and time-travel lessons. *)
divide_bp(a, b) == TrueDiv(a, b)

(* The call of a tool of the lesson gr. *)
CallTool(gr, call) ==
    CASE call.name = "divide" /\ gr = "agent" -> divide(call.a, call.b)
      [] call.name = "divide" /\ gr \in {"agent_bp", "agent_no_bp", "graph_edit_before",
                                         "graph_with_feedback", "time_travel"} ->
           divide_bp(call.a, call.b)
      [] OTHER -> Returns(RunTool(call))

(* ToolNode(tools): one tool message per tool call of the last message; an *)
(* exception of the tool is caught and becomes the content of the message. *)
ToolNode(gr, state) ==
    LET last == state.messages[Len(state.messages)]
    IN  [messages |->
            [i \in 1..Len(last.calls) |->
                LET out == CallTool(gr, last.calls[i])
                IN  Msg("tool", last.calls[i].name,
                        IF out.raised
                        THEN <<"Error: ", out.value, " Please fix your mistakes.">>
                        ELSE out.value, <<>>)]]

(* The language model bound to the tools: it answers the conversation with *)
(* a tool call or with a final answer.  sc lists the tool calls it makes,  *)
(* one per turn, before it answers.                                        *)
llm_with_tools(messages, sc) ==
    LET turn == Cardinality({i \in 1..Len(messages) : messages[i].type = "ai"})
    IN  IF turn < Len(sc)
        THEN Msg("ai", "", 0, <<sc[turn + 1]>>)
        ELSE AIMessage("answer")

assistant(state, sc) == [messages |-> <<llm_with_tools(state.messages, sc)>>]

(* What the language model is asked for, and the tool calls it makes for   *)
(* each request.                                                           *)
Requests == {"Multiply 2 and 2", "Add 10 and 5"}

ToolCallsFor(text) ==
    CASE text = "Multiply 2 and 2" -> <<ToolCall("multiply", 2, 2)>>
      [] text = "Add 10 and 5" -> <<ToolCall("add", 10, 5)>>
      [] OTHER -> <<>>

(* The assistant of the conversations kept by a checkpointer: the model    *)
(* sees all the stored messages and answers the last human message.        *)
assistant_memory(state) ==
    LET ms == state.messages
        humans == {i \in 1..Len(ms) : ms[i].type = "human"}
        h == CHOOSE i \in humans : \A j \in humans : j <= i
    IN  [messages |->
            <<llm_with_tools(SubSeq(ms, h, Len(ms)), ToolCallsFor(ms[h].text))>>]

(* state.get(key, default) *)
Get(state, key, default) == IF key \in DOMAIN state THEN state[key] ELSE default

(* call_model of the summarizing chatbot. *)
call_model(state) == [messages |-> <<AIMessage("reply")>>]

(* state["messages"][:-2]: all but the last 2 messages. *)
AllButLast2(ms) == SubSeq(ms, 1, IF Len(ms) > 2 THEN Len(ms) - 2 ELSE 0)

(* filter_messages_node: the removal of all but the last 2 messages. *)
filter_messages_node(state) ==
    LET old == AllButLast2(state.messages)
    IN  [messages |-> [i \in 1..Len(old) |-> RemoveMessage(old[i].id)]]

chat_model_node_v1(state) == [messages |-> <<AIMessage("reply")>>]

(* summarize_conversation that removes all but the 3 most recent messages. *)
summarize_conversation_keeps_3(state) ==
    LET summary == Get(state, "summary", "")
        n == Len(state.messages)
    IN  [summary |-> IF summary # "" THEN "extended summary" ELSE "summary",
         messages |-> [i \in 1..(IF n > 3 THEN n - 3 ELSE 0) |->
                         RemoveMessage(state.messages[i].id)]]

(* summarize_conversation: a new or extended summary, and the removal of   *)
(* all but the 2 most recent messages.                                     *)
summarize_conversation(state) ==
    LET summary == Get(state, "summary", "")
        n == Len(state.messages)
    IN  [summary |-> IF summary # "" THEN "extended summary" ELSE "summary",
         messages |-> [i \in 1..(IF n > 2 THEN n - 2 ELSE 0) |->
                         RemoveMessage(state.messages[i].id)]]

step_1(state) == state

(* step_2 with its threshold off by one. *)
step_2_interrupts_over_6(state) == Len(state.input) > 6

(* step_2 raises NodeInterrupt when the input is longer than 5 characters. *)
step_2_interrupts(state) == Len(state.input) > 5

(* step_2 that returns an emptied input. *)
step_2_clears(state) == [input |-> <<>>]

step_2(state) == state

step_3(state) == state

(* validate_transaction raises NodeInterrupt when the amount is over 1000. *)
validate_transaction_interrupts(state) == state.amount > 1000

validate_transaction(state) == [approved |-> TRUE]

execute_transaction(state) == state

(* The nodes of 01_simple_graph. *)
node_1(state) == [graph_state |-> state.graph_state \o <<" I am">>]

node_2(state) == [graph_state |-> state.graph_state \o <<" happy!">>]

node_3(state) == [graph_state |-> state.graph_state \o <<" sad!">>]

(* The nodes of state-schema. *)
node_1_schema(state) == [name |-> state.name \o <<" is ... ">>]

node_2_schema(state) == [mood |-> "happy"]

node_3_schema(state) == [mood |-> "sad"]

(* A state as a node annotated with a smaller schema receives it. *)
Restrict(state, keys) == [f \in DOMAIN state \cap keys |-> state[f]]

(* The nodes of multiple-schemas. *)
thinking_node_v1(state) == [answer |-> "bye", notes |-> "... his name is Lance"]

answer_node_v1(state) == [answer |-> "bye Lance"]

thinking_node_v2(state) == [answer |-> "bye", notes |-> "... his name is Lance"]

answer_node_v2(state) == [answer |-> "bye Lance"]

process_message(state) ==
    [response |-> <<"Echo: ", state.user_message>>,
     debug_info |-> "Model: GPT-4, Tokens: 150",
     api_calls |-> 1,
     timestamp |-> "2026-01-10 14:30:00"]

finalize_response(state) == [response |-> state.response]

(* The nodes of the log-analysis graphs. *)
get_failures(state) ==
    [failures |->
        SelectSeq(state.cleaned_logs,
                  LAMBDA l : "grade" \in DOMAIN l /\ l.grade = 0)]

generate_fa_summary(state) ==
    LET failures == state.failures
    IN  IF Len(failures) = 0
        THEN [fa_summary |-> <<"No failures detected. All logs passed quality checks.">>,
              processed_logs |-> <<>>]
        ELSE [fa_summary |-> <<"Found ", Len(failures), " failure(s).">>,
              processed_logs |->
                 [i \in 1..Len(failures) |->
                    <<"failure-analysis-on-log-", failures[i].id>>]]

generate_qs_summary(state) ==
    [qs_summary |-> <<"Analyzed ", Len(state.cleaned_logs), " questions.">>,
     processed_logs |->
        [i \in 1..Len(state.cleaned_logs) |->
           <<"summary-on-log-", state.cleaned_logs[i].id>>]]

send_to_slack(state) ==
    [report |-> <<"Question Analysis Report:">> \o state.qs_summary]

clean_logs(state) == [cleaned_logs |-> state.raw_logs]

(* The nodes of the research assistant with the analysis sub-graph; a text *)
(* is the sequence of its pieces.                                          *)
extract_facts(state) ==
    LET raw == state.raw_data
        raw30 == SubSeq(raw, 1, IF Len(raw) < 30 THEN Len(raw) ELSE 30)
    IN  [key_facts |-> << <<"Fact 1 from: ">> \o raw30 \o <<"...">>,
                          <<"Fact 2 from: ">> \o raw30 \o <<"...">> >>]

create_summary(state) ==
    [summary |-> <<"Analysis Summary: ", Len(state.key_facts), " key facts identified">>]

parallel_search(state) ==
    [search_results |-> << <<"Source 1: Information about ", state.query>>,
                           <<"Source 2: Analysis of ", state.query>>,
                           <<"Source 3: Recent updates on ", state.query>> >>]

create_final_report(state) ==
    [final_report |-> [query |-> state.query,
                       sources |-> Len(state.search_results),
                       analysis |-> state.summary]]

(* human_feedback: a placeholder that writes nothing. *)
human_feedback(state) == EmptyRec

(***************************************************************************)
(* Routing functions of the conditional edges.                             *)
(***************************************************************************)
Send(node, arg) == [node |-> node, arg |-> arg]

tools_condition(state) ==
    LET last == state.messages[Len(state.messages)]
    IN  IF last.type = "ai" /\ Len(last.calls) > 0 THEN "tools" ELSE END

(* should_continue that summarizes from 6 messages on. *)
should_continue_from_6(state) ==
    IF Len(state.messages) >= 6 THEN "summarize_conversation" ELSE END

should_continue(state) ==
    IF Len(state.messages) > 6 THEN "summarize_conversation" ELSE END

(* map_numbers that skips the first number. *)
map_numbers_skip_first(state) ==
    [i \in 1..(Len(state.numbers) - 1) |->
        Send("square_number", [number |-> state.numbers[i + 1]])]

map_numbers(state) ==
    [i \in 1..Len(state.numbers) |-> Send("square_number", [number |-> state.numbers[i]])]

map_topics(state) ==
    [i \in 1..Len(state.topics) |-> Send("research_topic", [topic |-> state.topics[i]])]

map_queries(state) ==
    [i \in 1..Len(state.queries) |-> Send("search_query", [query |-> state.queries[i]])]

(* map_documents that sends the document of every query. *)
map_documents_every_query(state) ==
    [i \in 1..Len(state.queries) |->
        Send("summarize_doc", [document |-> search_query([query |-> state.queries[i]]).documents[1]])]

map_documents(state) ==
    [i \in 1..Len(state.documents) |-> Send("summarize_doc", [document |-> state.documents[i]])]

(* add_conditional_edges(source, path): what path selects on a state.      *)
(* nexts: the node names it returns; sends: the Send invocations.          *)
Router(gr, source, state) ==
    CASE gr \in {"agent", "agent_bp", "agent_no_bp", "time_travel", "memory_agent",
                 "graph_edit_before", "graph_with_feedback"}
              /\ source = "assistant" ->
           [nexts |-> {tools_condition(state)} \ {END}, sends |-> <<>>]
      [] gr = "chatbot" /\ source = "conversation" ->
           [nexts |-> {should_continue(state)} \ {END}, sends |-> <<>>]
      [] gr = "graph_1" /\ source = START ->
           [nexts |-> {}, sends |-> map_numbers(state)]
      [] gr = "graph_3" /\ source = START ->
           [nexts |-> {}, sends |-> map_topics(state)]
      [] gr = "graph_4" /\ source = START ->
           [nexts |-> {}, sends |-> map_queries(state)]
      [] gr = "graph_4" /\ source = "search_query" ->
           [nexts |-> {}, sends |-> map_documents(state)]
      [] OTHER -> [nexts |-> {}, sends |-> <<>>]

(* random.random(), in tenths. *)
RandomTenths == 0..9

(* decide_mood: a 50/50 split on the draw rnd of random.random(). *)
decide_mood(state, rnd) == IF rnd < 5 THEN "node_2" ELSE "node_3"

(* The conditional edges whose path draws a random number; the others     *)
(* read the state alone.                                                   *)
RouterRnd(gr, source, state, rnd) ==
    IF gr \in {"simple_graph", "typed_dict_graph"} /\ source = "node_1"
    THEN [nexts |-> {decide_mood(state, rnd)}, sends |-> <<>>]
    ELSE Router(gr, source, state)

(***************************************************************************)
(* The merge engine: the partial updates of one round, in merge order,     *)
(* applied to the record through each field's reducer.                     *)
(***************************************************************************)
RECURSIVE FieldWrites(_, _)
FieldWrites(ws, f) ==
    IF Len(ws) = 0 THEN <<>>
    ELSE (IF f \in DOMAIN Head(ws) THEN <<Head(ws)[f]>> ELSE <<>>)
         \o FieldWrites(Tail(ws), f)

WrittenFields(ws) == UNION {DOMAIN ws[i] : i \in 1..Len(ws)}

(* A field without reducer accepts one value per round. *)
AmbiguousWrite(gr, ws) ==
    \E f \in WrittenFields(ws) :
        Reducer(gr, f) = "none" /\ Len(FieldWrites(ws, f)) > 1

MergeField(gr, old, ws, f) ==
    LET w == FieldWrites(ws, f)
        r == Reducer(gr, f)
    IN  IF Len(w) = 0 THEN old[f]
        ELSE IF r = "none" THEN w[Len(w)]
        ELSE FoldReducer(r, IF f \in DOMAIN old THEN old[f] ELSE ReducerDefault(r), w)

ApplyWrites(gr, old, ws) ==
    [f \in DOMAIN old \cup WrittenFields(ws) |-> MergeField(gr, old, ws, f)]

(* The record a run starts from: the reducer fields at their defaults,     *)
(* then the caller's input written through the reducers.                   *)
InitialValues(gr, inp) ==
    ApplyWrites(gr, [f \in ReducerFields(gr) |-> ReducerDefault(Reducer(gr, f))], <<inp>>)

(***************************************************************************)
(* The runner.  A run is a record:                                         *)
(*   status    PENDING, RUNNING, PAUSED, DONE or FAILED                    *)
(*   values    the Record                                                  *)
(*   tasks     the tasks of the current (or, when paused, next) round      *)
(*   seen      the sources a waiting edge has seen complete                *)
(*   trace     the nodes that completed, in completion order               *)
(*   attempts  the nodes that were started, in start order                 *)
(*   last      the last thing that happened to the run                     *)
(*   resumes   the caller's resumes so far                                 *)
(*   ops       the caller's resumes and state updates so far               *)
(***************************************************************************)
Task(node, isSend, arg) ==
    [node |-> node, send |-> isSend, arg |-> arg, st |-> "todo",
     writes |-> EmptyRec, nexts |-> {}, sends |-> <<>>]

NewRun ==
    [status |-> "PENDING", values |-> EmptyRec, tasks |-> <<>>, seen |-> {},
     trace |-> <<>>, attempts |-> <<>>, last |-> "new", resumes |-> 0, ops |-> 0]

(* The next round after the nodes ran completed: what their edges, their   *)
(* conditional edges (nexts, sends) and the waiting edges select.          *)
NextRound(gr, ran, nexts, sends, seen) ==
    LET static == {e[2] : e \in {e \in Edges(gr) : e[1] \in ran}} \ {END}
        seen2 == seen \cup {<<j.to, f>> : j \in JoinEdges(gr), f \in ran}
        seenOf == {p \in seen2 : \E j \in JoinEdges(gr) : j.to = p[1] /\ p[2] \in j.froms}
        joined == {j.to : j \in {k \in JoinEdges(gr) :
                                    \A f \in k.froms : <<k.to, f>> \in seenOf}}
        nodes == static \cup nexts \cup joined
        pull == SelectSeq(NodeOrder(gr), LAMBDA n : n \in nodes)
    IN  [tasks |-> [i \in 1..Len(pull) |-> Task(pull[i], FALSE, EmptyRec)]
                   \o [i \in 1..Len(sends) |-> Task(sends[i].node, TRUE, sends[i].arg)],
         seen |-> {p \in seenOf : p[1] \notin joined}]

(* Where a run stands once its next round is known. *)
StatusFor(gr, tasks) ==
    IF Len(tasks) = 0 THEN "DONE"
    ELSE IF \E i \in 1..Len(tasks) : tasks[i].node \in InterruptBefore(gr) THEN "PAUSED"
    ELSE "RUNNING"

(* graph.invoke(input) / graph.stream(input, thread) on a new run. *)
InvokeOp(gr, inp, r) ==
    LET vals == InitialValues(gr, inp)
        route == Router(gr, START, vals)
        nxt == NextRound(gr, {START}, route.nexts, route.sends, {})
    IN  [r EXCEPT !.status = StatusFor(gr, nxt.tasks), !.values = vals,
                  !.tasks = nxt.tasks, !.seen = nxt.seen, !.last = "invoke"]

(* The end of a round, once every task of it has run: a raised interrupt   *)
(* pauses the run on the same round; otherwise the writes are merged in    *)
(* the order perm and the next round is selected.                          *)
EndRoundOp(gr, r, perm) ==
    LET n == Len(r.tasks)
        ws == [k \in 1..n |-> r.tasks[perm[k]].writes]
        ran == {r.tasks[k].node : k \in 1..n}
        nexts == UNION {r.tasks[k].nexts : k \in 1..n}
        sends == Flatten([k \in 1..n |-> r.tasks[k].sends])
        nxt == NextRound(gr, ran, nexts, sends, r.seen)
    IN  IF \E k \in 1..n : r.tasks[k].st = "interrupted"
        THEN [r EXCEPT !.status = "PAUSED", !.last = "interrupt",
                       !.tasks = [k \in 1..n |->
                                    IF r.tasks[k].st = "interrupted"
                                    THEN [r.tasks[k] EXCEPT !.st = "todo"]
                                    ELSE r.tasks[k]]]
        ELSE IF AmbiguousWrite(gr, ws)
        THEN [r EXCEPT !.status = "FAILED", !.last = "InvalidUpdateError"]
        ELSE [r EXCEPT !.status = StatusFor(gr, nxt.tasks),
                       !.values = ApplyWrites(gr, r.values, ws),
                       !.tasks = nxt.tasks, !.seen = nxt.seen, !.last = "merge"]

(* What graph.invoke returns for a finished run: the Record's fields that  *)
(* the output schema names.                                                *)
Output(gr, r) == Restrict(r.values, OutputKeys(gr))

(* The run after task i of the round gave res and its conditional edge    *)
(* gave route: an interrupt leaves the task for the resume, an exception   *)
(* ends the run, writes wait for the end of the round.                     *)
TaskDone(r, i, res, route) ==
    LET t == r.tasks[i]
    IN  IF res.kind = "interrupt"
        THEN [r EXCEPT !.tasks[i].st = "interrupted",
                       !.attempts = Append(@, t.node), !.last = "task"]
        ELSE IF res.kind = "error"
        THEN [r EXCEPT !.status = "FAILED", !.tasks[i].st = "failed",
                       !.attempts = Append(@, t.node), !.last = "error"]
        ELSE [r EXCEPT !.tasks[i] = [t EXCEPT !.st = "done", !.writes = res.writes,
                                              !.nexts = route.nexts,
                                              !.sends = route.sends],
                       !.trace = Append(@, t.node),
                       !.attempts = Append(@, t.node), !.last = "task"]

(***************************************************************************)
(* A compiled sub-graph used as a node: the sub-graph runs to its end on   *)
(* the parent's fields its state schema names, and hands back the fields   *)
(* of its output schema.  The sub-graphs of the lessons are chains of      *)
(* plain nodes.                                                            *)
(***************************************************************************)
(* What running a node of a sub-graph gives: its writes, or the KeyError   *)
(* of reading a key the state does not hold.                               *)
SubNodeRun(sub, node, state) ==
    LET ok(w) == [kind |-> "ok", writes |-> w]
        raised == [kind |-> "error", writes |-> EmptyRec]
    IN  CASE sub = "fa_graph" /\ node = "get_failures" -> ok(get_failures(state))
          [] sub = "fa_graph" /\ node = "generate_summary" -> ok(generate_fa_summary(state))
          [] sub = "qs_graph" /\ node = "generate_summary" -> ok(generate_qs_summary(state))
          [] sub = "qs_graph" /\ node = "send_to_slack" -> ok(send_to_slack(state))
          [] sub = "analysis_graph" /\ node = "extract_facts" ->
               IF "raw_data" \in DOMAIN state THEN ok(extract_facts(state)) ELSE raised
          [] sub = "analysis_graph" /\ node = "create_summary" ->
               IF "key_facts" \in DOMAIN state THEN ok(create_summary(state)) ELSE raised

SubRunTask(sub, r, i) ==
    LET t == r.tasks[i]
        res == SubNodeRun(sub, t.node, r.values)
        route == Router(sub, t.node, ApplyWrites(sub, r.values, <<res.writes>>))
    IN  TaskDone(r, i, res, route)

(* The rounds of a sub-graph, one after the other. *)
RECURSIVE SubRunToEnd(_, _)
SubRunToEnd(sub, r0) ==
    CHOOSE out \in
       {IF r.status # "RUNNING" THEN r
        ELSE LET todo == {i \in 1..Len(r.tasks) : r.tasks[i].st = "todo"}
             IN  IF todo # {}
                 THEN SubRunToEnd(sub, SubRunTask(sub, r, CHOOSE i \in todo :
                                                             \A j \in todo : i <= j))
                 ELSE SubRunToEnd(sub, EndRoundOp(sub, r, [k \in 1..Len(r.tasks) |-> k]))
          : r \in {r0}} : TRUE

(* The run of a sub-graph on the state of its parent: the sub-graph reads  *)
(* the fields of its own schema; an input with none of them is an          *)
(* EmptyInputError.                                                        *)
SubgraphRun(sub, state) ==
    LET inp == Restrict(state, DOMAIN Schema(sub))
    IN  IF DOMAIN inp = {}
        THEN [NewRun EXCEPT !.status = "FAILED", !.last = "EmptyInputError"]
        ELSE SubRunToEnd(sub, InvokeOp(sub, inp, NewRun))

Subgraph(sub, state) == Output(sub, SubgraphRun(sub, state))

(* The nodes that are compiled sub-graphs, and the sub-graph of each. *)
SubgraphNodes == {"failure_analysis", "question_summarization", "analyze_results"}

SubgraphOf(node) ==
    CASE node = "failure_analysis" -> "fa_graph"
      [] node = "question_summarization" -> "qs_graph"
      [] node = "analyze_results" -> "analysis_graph"

(* What running a sub-graph node gives: the output of the sub-graph's run, *)
(* or the exception that ended it.                                         *)
SubgraphNode(sub, state) ==
    CHOOSE res \in
       {IF sr.status = "FAILED" THEN [kind |-> "error", writes |-> EmptyRec]
        ELSE [kind |-> "ok", writes |-> Output(sub, sr)]
          : sr \in {SubgraphRun(sub, state)}} : TRUE

(* What running a node on a state gives: its writes, an interrupt, or the  *)
(* exception it raises (reading a key the state does not hold is a         *)
(* KeyError; a sub-graph that fails fails the node).                       *)
NodeRun(gr, node, state, sc) ==
    LET ok(w) == [kind |-> "ok", writes |-> w]
        raised == [kind |-> "error", writes |-> EmptyRec]
    IN  CASE gr = "graph_without" /\ node = "node_1" -> ok(node_without_reducer_1(state))
          [] gr = "graph_without" /\ node = "node_2" -> ok(node_without_reducer_2(state))
          [] gr = "graph_with" /\ node = "node_1" -> ok(node_with_reducer_1(state))
          [] gr = "graph_with" /\ node = "node_2" -> ok(node_with_reducer_2(state))
          [] gr = "app_graph" /\ node = "greet" -> ok(greet_user(state))
          [] gr = "app_graph" /\ node = "question" -> ok(ask_question(state))
          [] node = "add5" -> ok(increment_by_5(state))
          [] node = "add3" -> ok(increment_by_3(state))
          [] node = "a" -> ok(ReturnNodeValue("I'm A", state))
          [] node = "b" -> ok(ReturnNodeValue("I'm B", state))
          [] node = "b2" -> ok(ReturnNodeValue("I'm B2", state))
          [] node = "c" -> ok(ReturnNodeValue("I'm C", state))
          [] node = "d" -> ok(ReturnNodeValue("I'm D", state))
          [] node = "square_number" -> ok(square_number(state))
          [] node = "search_query" -> ok(search_query(state))
          [] node = "summarize_doc" -> ok(summarize_doc(state))
          [] node = "create_report" -> ok(create_report(state))
          [] node = "sum_squares" -> ok(sum_squares(state))
          [] node = "research_topic" -> ok(research_topic(state))
          [] node = "combine_research" -> ok(combine_research(state))
          [] gr \in {"agent", "agent_bp", "agent_no_bp", "graph_edit_before",
                     "graph_with_feedback"}
                /\ node = "assistant" ->
               ok(assistant(state, sc))
          [] gr \in {"time_travel", "memory_agent"} /\ node = "assistant" ->
               ok(assistant_memory(state))
          [] node = "conversation" -> ok(call_model(state))
          [] node = "summarize_conversation" -> ok(summarize_conversation(state))
          [] node = "filter" -> ok(filter_messages_node(state))
          [] node = "human_feedback" -> ok(human_feedback(state))
          [] node = "clean_logs" -> ok(clean_logs(state))
          [] node = "parallel_search" ->
               IF "query" \in DOMAIN state THEN ok(parallel_search(state)) ELSE raised
          [] node = "create_final_report" ->
               IF {"query", "search_results", "summary"} \subseteq DOMAIN state
               THEN ok(create_final_report(state)) ELSE raised
          [] node \in SubgraphNodes -> SubgraphNode(SubgraphOf(node), state)
          [] gr = "schemas_v1" /\ node = "thinking_node" -> ok(thinking_node_v1(state))
          [] gr = "schemas_v1" /\ node = "answer_node" -> ok(answer_node_v1(state))
          [] gr = "graph_v2" /\ node = "thinking_node" ->
               ok(thinking_node_v2(Restrict(state, InputState)))
          [] gr = "graph_v2" /\ node = "answer_node" -> ok(answer_node_v2(state))
          [] node = "process" -> ok(process_message(Restrict(state, ChatInputState)))
          [] node = "finalize" -> ok(finalize_response(state))
          [] node = "chat_model" -> ok(chat_model_node_v1(state))
          [] node = "tools" -> ok(ToolNode(gr, state))
          [] node = "msg1" -> ok(add_msg("Message 1", TRUE))
          [] node = "msg2" -> ok(add_msg("Message 2", FALSE))
          [] node = "msg3" -> ok(add_msg("Message 3", TRUE))
          [] node = "msg4" -> ok(add_msg("Message 4", FALSE))
          [] node = "msg5" -> ok(add_msg("Message 5", TRUE))
          [] node = "step_1" -> ok(step_1(state))
          [] node = "step_2" ->
               IF step_2_interrupts(state)
               THEN [kind |-> "interrupt", writes |-> EmptyRec]
               ELSE ok(step_2(state))
          [] node = "step_3" -> ok(step_3(state))
          [] node = "validate" ->
               IF validate_transaction_interrupts(state)
               THEN [kind |-> "interrupt", writes |-> EmptyRec]
               ELSE ok(validate_transaction(state))
          [] node = "execute" -> ok(execute_transaction(state))
          [] gr = "simple_graph" /\ node = "node_1" -> ok(node_1(state))
          [] gr = "simple_graph" /\ node = "node_2" -> ok(node_2(state))
          [] gr = "simple_graph" /\ node = "node_3" -> ok(node_3(state))
          [] gr = "typed_dict_graph" /\ node = "node_1" -> ok(node_1_schema(state))
          [] gr = "typed_dict_graph" /\ node = "node_2" -> ok(node_2_schema(state))
          [] gr = "typed_dict_graph" /\ node = "node_3" -> ok(node_3_schema(state))

(* One task of the round runs on the round's start state (a Send's task on *)
(* the Send's argument); its conditional edge reads the state with the     *)
(* task's own writes applied.                                              *)
RunTaskRnd(gr, sc, r, i, rnd) ==
    LET t == r.tasks[i]
        res == NodeRun(gr, t.node, IF t.send THEN t.arg ELSE r.values, sc)
        route == RouterRnd(gr, t.node, ApplyWrites(gr, r.values, <<res.writes>>), rnd)
    IN  TaskDone(r, i, res, route)

(* A task whose routing draws 0 wherever it draws a random number. *)
RunTaskOp(gr, sc, r, i) == RunTaskRnd(gr, sc, r, i, 0)

(* graph.invoke(input) on a graph without breakpoints: the rounds run one  *)
(* after the other until no step is selected (tasks and merges in task     *)
(* order).                                                                 *)
RECURSIVE RunToEnd(_, _, _)
RunToEnd(gr, sc, r0) ==
    CHOOSE out \in
       {IF r.status # "RUNNING" THEN r
        ELSE LET todo == {i \in 1..Len(r.tasks) : r.tasks[i].st = "todo"}
             IN  IF todo # {}
                 THEN RunToEnd(gr, sc,
                               RunTaskOp(gr, sc, r,
                                         CHOOSE i \in todo : \A j \in todo : i <= j))
                 ELSE RunToEnd(gr, sc, EndRoundOp(gr, r, [k \in 1..Len(r.tasks) |-> k]))
          : r \in {r0}} : TRUE

(* A resume that drops the selected step and ends the run. *)
ResumeOp_skip(r) ==
    [r EXCEPT !.status = "DONE", !.tasks = <<>>, !.last = "resume", !.resumes = @ + 1,
              !.ops = @ + 1]

(* graph.stream(None, thread) on a paused run. *)
ResumeOp(r) ==
    [r EXCEPT !.status = "RUNNING", !.last = "resume", !.resumes = @ + 1, !.ops = @ + 1]

(* update_state without as_node: the node that wrote last (the input, when *)
(* no node ran yet).                                                       *)
AsNode_last_writer(gr, r) == IF Len(r.trace) = 0 THEN START ELSE r.trace[Len(r.trace)]

(* The node an update is attributed to: the as_node the caller names, or   *)
(* the node that wrote last (the input, when no node ran yet).             *)
AsNode(gr, r) ==
    IF gr = "graph_with_feedback" THEN "human_feedback"
    ELSE IF Len(r.trace) = 0 THEN START ELSE r.trace[Len(r.trace)]

(* graph.update_state(thread, update) on a paused run: the update is       *)
(* written as if by that node, and the round after that node is selected   *)
(* again.                                                                  *)
UpdateStateOp(gr, r, upd) ==
    LET as_node == AsNode(gr, r)
        vals == ApplyWrites(gr, r.values, <<upd>>)
        route == Router(gr, as_node, vals)
        nxt == NextRound(gr, {as_node}, route.nexts, route.sends, r.seen)
    IN  [r EXCEPT !.values = vals, !.tasks = nxt.tasks, !.seen = nxt.seen,
                  !.status = IF Len(nxt.tasks) = 0 THEN "DONE" ELSE "PAUSED",
                  !.last = "update", !.ops = @ + 1]

(***************************************************************************)
(* The checkpointer.  It keeps, per thread_id, the snapshots of the        *)
(* thread in the order they were written; a snapshot's checkpoint_id is    *)
(* its position.  A snapshot holds the Record (values), the tasks of the   *)
(* next round (state.next), its parent's checkpoint_id (0: none), what     *)
(* wrote it (source: "input", "loop" or "update") and the node whose       *)
(* writes it records (writer).                                             *)
(***************************************************************************)
Threads == {"thread_1", "thread_2"}

(* {"configurable": {"thread_id": thread_id}} with one id for every caller. *)
config_shared(thread_id) == "thread_1"

(* {"configurable": {"thread_id": thread_id}}: the key the snapshots of a  *)
(* conversation are stored under.                                          *)
config(thread_id) == thread_id

EmptyStore == [t \in Threads |-> <<>>]

Checkpoint(values, tasks, seen, parent, source, writer) ==
    [values |-> values, tasks |-> tasks, seen |-> seen, parent |-> parent,
     source |-> source, writer |-> writer]

(* state.next of a snapshot. *)
NextOf(c) == [i \in 1..Len(c.tasks) |-> c.tasks[i].node]

(* The run a snapshot stands for. *)
RunOf(c) ==
    [NewRun EXCEPT !.status = IF Len(c.tasks) = 0 THEN "DONE" ELSE "RUNNING",
                   !.values = c.values, !.tasks = c.tasks, !.seen = c.seen,
                   !.last = "resume"]

(* The rounds from a run on, one after the other, each merged round        *)
(* written as a new snapshot whose parent is the snapshot before it.       *)
RECURSIVE StreamOp(_, _, _, _)
StreamOp(gr, hist, r, parent) ==
    IF r.status # "RUNNING" \/ Len(r.tasks) = 0 THEN hist
    ELSE LET todo == {i \in 1..Len(r.tasks) : r.tasks[i].st = "todo"}
         IN  IF todo # {}
             THEN StreamOp(gr, hist,
                           RunTaskOp(gr, <<>>, r, CHOOSE i \in todo : \A j \in todo : i <= j),
                           parent)
             ELSE LET r2 == EndRoundOp(gr, r, [k \in 1..Len(r.tasks) |-> k])
                      c == Checkpoint(r2.values, r2.tasks, r2.seen, parent, "loop",
                                      r2.trace[Len(r2.trace)])
                  IN  IF r2.last = "merge"
                      THEN StreamOp(gr, Append(hist, c), r2, Len(hist) + 1)
                      ELSE hist

(* The Record a new input is applied to: the thread's latest snapshot, or  *)
(* the reducers' defaults on a thread without snapshots.                   *)
(* An invocation that starts from the defaults whatever the thread holds.  *)
StartValues_fresh(gr, hist) ==
    [f \in ReducerFields(gr) |-> ReducerDefault(Reducer(gr, f))]

StartValues(gr, hist) ==
    IF Len(hist) = 0
    THEN [f \in ReducerFields(gr) |-> ReducerDefault(Reducer(gr, f))]
    ELSE hist[Len(hist)].values

(* graph.invoke(input, config) / graph.stream(input, config): a snapshot   *)
(* for the input, a snapshot with the input written to the Record, then    *)
(* the rounds.                                                             *)
InvokeThread(gr, hist, inp) ==
    LET base == StartValues(gr, hist)
        c_in == Checkpoint(base, <<Task(START, FALSE, EmptyRec)>>, {}, Len(hist),
                           "input", START)
        vals == ApplyWrites(gr, base, <<inp>>)
        route == Router(gr, START, vals)
        nxt == NextRound(gr, {START}, route.nexts, route.sends, {})
        c_0 == Checkpoint(vals, nxt.tasks, nxt.seen, Len(hist) + 1, "loop", START)
    IN  StreamOp(gr, hist \o <<c_in, c_0>>, RunOf(c_0), Len(hist) + 2)

(* graph.stream(None, config) with the stream run from the latest snapshot *)
(* whatever checkpoint_id the config names.                                *)
stream_from_latest(gr, hist, k) == StreamOp(gr, hist, RunOf(hist[Len(hist)]), Len(hist))

(* graph.stream(None, config) with config naming snapshot k: the steps     *)
(* after the snapshot run again, from the snapshot's Record.               *)
stream_from(gr, hist, k) == StreamOp(gr, hist, RunOf(hist[k]), k)

(* update_state that rewrites the snapshot it is given. *)
update_state_in_place(gr, hist, k, upd) ==
    [hist EXCEPT ![k].values = ApplyWrites(gr, hist[k].values, <<upd>>),
                 ![k].source = "update"]

(* graph.update_state(config, update) with config naming snapshot k: a new *)
(* snapshot, child of k, with the update written as by k's writer; its     *)
(* checkpoint_id is returned.                                              *)
update_state(gr, hist, k, upd) ==
    LET as_node == hist[k].writer
        vals == ApplyWrites(gr, hist[k].values, <<upd>>)
        route == Router(gr, as_node, vals)
        nxt == NextRound(gr, {as_node}, route.nexts, route.sends, hist[k].seen)
    IN  Append(hist, Checkpoint(vals, nxt.tasks, nxt.seen, k, "update", as_node))

(* The snapshots a caller replays from: those with a next step, other     *)
(* than the snapshot of a not yet written input.                           *)
Targets(hist) ==
    {k \in 1..Len(hist) : Len(hist[k].tasks) > 0 /\ hist[k].source # "input"}

(* The snapshots a caller forks from: those that hold the user's message   *)
(* alone, with the step that answers it next (all_states[-2],              *)
(* base_checkpoint, before_error).                                         *)
ForkTargets(hist) ==
    {k \in Targets(hist) :
        /\ Len(hist[k].values.messages) = 1
        /\ hist[k].values.messages[1].type = "human"}

(***************************************************************************)
(* What the caller and the environment supply.                             *)
(***************************************************************************)
InitLists == SeqsUpTo({"Message 0"}, MaxInitLen)

InitCounts == {0, 1, 10}

Chars == {"h", "i"}

ToolCalls == {ToolCall("multiply", 3, 4), ToolCall("add", 12, 10)}

(* The division the lessons ask about. *)
DivideCalls == {ToolCall("divide", 5, 0)}

Amounts == {500, 1000, 1001, 5000}

(* An id no message of a run carries before the caller uses it. *)
NewId == 99

(* The logs of run_basic_example: without grade, failed, passed. *)
question_answer == [id |-> 1, question |-> "How can I import ChatOllama?"]

question_answer_feedback ==
    [id |-> 2, question |-> "How can I use Chroma vector store?", grade |-> 0]

question_answer_success == [id |-> 3, question |-> "What is LangChain?", grade |-> 1]

Logs == {question_answer, question_answer_feedback, question_answer_success}

(* The sample conversation of trim-filter-messages, with its ids. *)
messages_sample ==
    <<[AIMessage("Hi! I'm here to help.") EXCEPT !.id = 1],
      [HumanMessage("Hi!") EXCEPT !.id = 2],
      [AIMessage("What would you like to know about?") EXCEPT !.id = 3],
      [HumanMessage("Tell me about ocean mammals") EXCEPT !.id = 4],
      [AIMessage("Ocean mammals include whales, dolphins, seals...") EXCEPT !.id = 5],
      [HumanMessage("What about whales specifically?") EXCEPT !.id = 6]>>

(* The initial Records a graph is invoked with. *)
Inputs(gr) ==
    CASE gr \in {"graph_without", "graph_with"} -> {[messages |-> l] : l \in InitLists}
      [] gr = "app_graph" ->
           {[messages |-> <<>>, user_name |-> u] : u \in {"Alice", "Bob"}}
      [] gr \in {"counter_graph", "merge_round"} ->
           {[count |-> c, name |-> "MyCounter"] : c \in InitCounts}
      [] gr \in {"linear", "par_noreducer", "par_reducer", "uneven"} ->
           {[state |-> l] : l \in InitLists}
      [] gr = "limited_graph" ->
           {[messages |-> l] :
               l \in SeqsUpTo({HumanMessage("Message 0"), AIMessage("Reply 0")},
                              MaxLimitedInput)}
      [] gr = "sorting" ->
           {[state |-> l] : l \in SeqsUpTo({"Message 0", "I'm C"}, MaxSortInput)}
      [] gr = "graph_1" -> {[numbers |-> l] : l \in SeqsUpTo(1..MaxNumber, MaxItems)}
      [] gr = "graph_2" ->
           {[query |-> "Multi-Agent Systems"],
            [query |-> "Multi-Agent Systems", summary |-> <<"none yet">>]}
      [] gr = "graph_4" ->
           {[queries |-> l] : l \in SeqsUpTo({"LangGraph", "Map-Reduce"}, MaxQueries)}
      [] gr = "graph_3" ->
           {[topics |-> l] : l \in SeqsUpTo({"LangGraph", "RAG"}, MaxItems)}
      [] gr \in {"agent", "agent_bp"} ->
           {[messages |-> <<HumanMessage("Multiply 3 and 4, then add 10")>>]}
      [] gr = "dyn" -> {[input |-> l] : l \in SeqsUpTo(Chars, MaxInputLen)}
      [] gr = "approval" ->
           {[amount |-> a, user_id |-> "user_456", approved |-> FALSE] : a \in Amounts}
      [] gr = "simple_graph" -> {[graph_state |-> <<"Hi, this is Lance.">>]}
      [] gr = "typed_dict_graph" -> {[name |-> <<"Lance">>, mood |-> "sad"]}
      [] gr \in {"schemas_v1", "graph_v2"} -> {[question |-> "hi"]}
      [] gr = "chatbot_io" -> {[user_message |-> m] : m \in {"Hello!", "Bye"}}
      [] gr = "graph_edit_before" -> {[messages |-> <<HumanMessage("Multiply 2 and 3")>>]}
      [] gr = "graph_with_feedback" -> {[messages |-> <<HumanMessage("Multiply 4 and 5")>>]}
      [] gr = "entry_graph" -> {[raw_logs |-> l] : l \in SeqsUpTo(Logs, MaxLogs)}
      [] gr = "graph_v1" ->
           {[messages |-> SubSeq(messages_sample, 1, n)] : n \in 0..Len(messages_sample)}

(* The environment of a run: the tool calls the language model makes, in   *)
(* order, before it answers; for merge_round, the steps that run           *)
(* concurrently in the round.                                              *)
Scripts(gr) ==
    CASE gr \in {"agent", "agent_bp"} -> SeqsUpTo(ToolCalls \cup DivideCalls, MaxToolCalls)
      [] gr \in {"graph_edit_before", "graph_with_feedback"} ->
           SeqsUpTo(ToolCalls, MaxToolCalls)
      [] gr = "merge_round" -> SeqsUpTo({"add5", "add3"}, MaxBranchWrites) \ {<<>>}
      [] OTHER -> {<<>>}

(* The corrections a caller makes to a paused run with update_state. *)
Updates(gr) ==
    CASE gr = "dyn" ->
           {[input |-> <<"h", "i">>], [input |-> <<"h", "i", "h", "i", "h", "i">>]}
      [] gr = "approval" -> {[approved |-> TRUE, amount |-> a] : a \in Amounts}
      [] gr = "graph_with_feedback" ->
           {[messages |-> <<HumanMessage("no, multiply 6 and 7")>>],
            [messages |-> <<>>]}
      [] gr = "graph_edit_before" ->
           {[messages |-> <<HumanMessage("No, actually multiply 3 and 3!")>>],
            [messages |-> <<[HumanMessage("Actually, multiply 7 and 8!")
                               EXCEPT !.id = 1]>>],
            [messages |-> <<[HumanMessage("Allow for 2 + 2") EXCEPT !.id = NewId]>>]}
      [] OTHER -> {}

(***************************************************************************)
(* The state machine.                                                      *)
(***************************************************************************)
(* merge_round starts inside a round of the merge engine over CounterState *)
(* whose concurrently-run steps are the script's; every other graph starts *)
(* not yet invoked.                                                        *)
FirstRun(gr, inp, sc) ==
    IF gr = "merge_round"
    THEN [NewRun EXCEPT !.status = "RUNNING", !.values = InitialValues(gr, inp),
                        !.tasks = [i \in 1..Len(sc) |-> Task(sc[i], FALSE, EmptyRec)],
                        !.last = "invoke"]
    ELSE NewRun

Init ==
    /\ g \in Graphs
    /\ input \in Inputs(g)
    /\ script \in Scripts(g)
    /\ run = FirstRun(g, input, script)
    /\ store = EmptyStore
    /\ log = <<>>

Invoke ==
    /\ g \in Graphs
    /\ run.status = "PENDING"
    /\ run' = InvokeOp(g, input, run)
    /\ UNCHANGED <<g, input, script, store, log>>

RunTask ==
    /\ run.status = "RUNNING"
    /\ \E i \in 1..Len(run.tasks), rnd \in RandomTenths :
          /\ run.tasks[i].st = "todo"
          /\ run' = RunTaskRnd(g, script, run, i, rnd)
    /\ UNCHANGED <<g, input, script, store, log>>

EndRound ==
    /\ run.status = "RUNNING"
    /\ Len(run.tasks) > 0
    /\ \A i \in 1..Len(run.tasks) : run.tasks[i].st # "todo"
    /\ \E perm \in Perms(Len(run.tasks)) : run' = EndRoundOp(g, run, perm)
    /\ UNCHANGED <<g, input, script, store, log>>

Resume ==
    /\ run.status = "PAUSED"
    /\ HasCheckpointer(g)
    /\ g = "graph_with_feedback" => run.last = "update"
    /\ run.ops < MaxOps
    /\ run' = ResumeOp(run)
    /\ UNCHANGED <<g, input, script, store, log>>

UpdateState ==
    /\ run.status = "PAUSED"
    /\ HasCheckpointer(g)
    /\ run.ops < MaxOps
    /\ \E upd \in Updates(g) : run' = UpdateStateOp(g, run, upd)
    /\ UNCHANGED <<g, input, script, store, log>>

Next == Invoke \/ RunTask \/ EndRound \/ Resume \/ UpdateState

Spec == Init /\ [][Next]_vars

(* graph.invoke and graph.stream drive a run until it is done, failed or   *)
(* paused: an invoked run is started, a started task runs, a complete      *)
(* round ends.  Resumes and updates are the caller's choice.  The graphs   *)
(* are those whose runs are followed to their end.                         *)
FairGraphs == {"dyn", "approval", "agent", "agent_bp"}

FairInit == Init /\ g \in FairGraphs

FairSpec ==
    FairInit /\ [][Next]_vars /\ WF_vars(Invoke) /\ WF_vars(RunTask) /\ WF_vars(EndRound)

(***************************************************************************)
(* The conversations kept by a checkpointer: the callers' operations on    *)
(* the threads of one compiled graph.  log lists the operations made.      *)
(***************************************************************************)
ThreadGraphs == {"time_travel", "memory_agent", "chatbot"}

(* The thread_ids the callers of a graph use. *)
ThreadsOf(gr) == IF gr = "time_travel" THEN {"thread_1"} ELSE Threads

Op(op, thread, k, text, result) ==
    [op |-> op, thread |-> thread, k |-> k, text |-> text, result |-> result]

ThreadInit ==
    /\ g \in ThreadGraphs
    /\ input = EmptyRec
    /\ script = <<>>
    /\ run = NewRun
    /\ store = EmptyStore
    /\ log = <<>>

(* graph.invoke({"messages": [HumanMessage(text)]}, config) *)
ThreadInvoke ==
    /\ g \in ThreadGraphs
    /\ Len(log) < MaxThreadOps
    /\ \E t \in ThreadsOf(g), text \in Requests :
          LET hist == InvokeThread(g, store[config(t)], [messages |-> <<HumanMessage(text)>>])
          IN  /\ store' = [store EXCEPT ![config(t)] = hist]
              /\ log' = Append(log, Op("invoke", t, 0, text, Len(hist)))
    /\ UNCHANGED <<g, input, script, run>>

(* graph.stream(None, snapshot.config) *)
ThreadStream ==
    /\ Len(log) < MaxThreadOps
    /\ g = "time_travel"
    /\ \E t \in ThreadsOf(g) :
          \E k \in Targets(store[config(t)]) :
             LET hist == stream_from(g, store[config(t)], k)
             IN  /\ store' = [store EXCEPT ![config(t)] = hist]
                 /\ log' = Append(log, Op("stream", t, k, "", Len(hist)))
    /\ UNCHANGED <<g, input, script, run>>

(* graph.update_state(snapshot.config, {"messages": [HumanMessage(text,    *)
(* id = the id of the snapshot's first message)]})                         *)
ThreadUpdateState ==
    /\ Len(log) < MaxThreadOps
    /\ g = "time_travel"
    /\ \E t \in ThreadsOf(g), text \in Requests :
          \E k \in ForkTargets(store[config(t)]) :
             LET old == store[config(t)]
                 msg == [HumanMessage(text) EXCEPT !.id = old[k].values.messages[1].id]
                 hist == update_state(g, old, k, [messages |-> <<msg>>])
             IN  /\ store' = [store EXCEPT ![config(t)] = hist]
                 /\ log' = Append(log, Op("update_state", t, k, text, Len(hist)))
    /\ UNCHANGED <<g, input, script, run>>

(* The graph is rebuilt over the same database file. *)
Restart ==
    /\ Len(log) < MaxThreadOps
    /\ g = "chatbot"
    /\ log' = Append(log, Op("restart", "", 0, "", 0))
    /\ UNCHANGED <<g, input, script, run, store>>

ThreadNext == ThreadInvoke \/ ThreadStream \/ ThreadUpdateState \/ Restart

ThreadSpec == ThreadInit /\ [][ThreadNext]_vars

(* The lesson scripts together: the single runs and the conversations.     *)
LessonsInit == Init \/ ThreadInit

LessonsNext == Next \/ ThreadNext

LessonsSpec == LessonsInit /\ [][LessonsNext]_vars

(***************************************************************************)
(* Properties.                                                             *)
(***************************************************************************)
(* The run stands between two rounds: no task of the current round ran.    *)
BetweenRounds ==
    /\ run.status \in {"RUNNING", "PAUSED", "DONE"}
    /\ \A i \in 1..Len(run.tasks) : run.tasks[i].st = "todo"

(* What the nodes of a trace wrote to field f, in trace order. *)
TraceWrites(tr, f) ==
    [i \in 1..Len(tr) |-> NodeRun(g, tr[i], run.values, script).writes[f]]

(* C1: in a sequential chain whose steps write a field without reducer,    *)
(* the field holds, after each round, the value the last step wrote and    *)
(* nothing of the earlier writes or of the initial value; the final value  *)
(* of graph_without is <<"Message 2">> and of the linear graph <<"I'm D">>.*)
C1_LastWriteWins ==
    LET f == IF g = "linear" THEN "state" ELSE "messages"
    IN  g \in {"graph_without", "linear"} =>
          /\ (BetweenRounds /\ Len(run.trace) > 0) =>
                run.values[f] = TraceWrites(run.trace, f)[Len(run.trace)]
          /\ (g = "graph_without" /\ run.status = "DONE") =>
                /\ run.trace = <<"node_1", "node_2">>
                /\ run.values.messages = <<"Message 2">>
          /\ (g = "linear" /\ run.status = "DONE") =>
                /\ run.trace = <<"a", "b", "c", "d">>
                /\ run.values.state = <<"I'm D">>

C1_Witness ==
    /\ g = "graph_without"
    /\ run.status = "DONE"
    /\ input.messages = <<"Message 0">>
    /\ run.values.messages = <<"Message 2">>

(* C2: in the sequential graph whose field has the list-concatenation      *)
(* reducer, the list is, after each round, the initial list followed by    *)
(* the sublists written so far in the order their steps ran; the final     *)
(* list is the initial list followed by "Message 1", "Message 2".          *)
C2_AppendInOrder ==
    g = "graph_with" =>
      /\ BetweenRounds =>
            run.values.messages
              = input.messages \o Flatten(TraceWrites(run.trace, "messages"))
      /\ run.status = "DONE" =>
            run.values.messages = input.messages \o <<"Message 1", "Message 2">>

C2_Witness ==
    /\ g = "graph_with"
    /\ run.status = "DONE"
    /\ run.values.messages = <<"Message 0", "Message 1", "Message 2">>

(* C3: with the sum reducer the count is the initial count plus the sum of *)
(* the contributions merged so far: 5 then 3 in sequence (counter_graph),  *)
(* or the contributions of concurrently-run steps merged in any order      *)
(* (merge_round).                                                          *)
Contribution(node) == IF node = "add5" THEN 5 ELSE 3

C3_SumOfContributions ==
    /\ (g = "counter_graph" /\ BetweenRounds) =>
          run.values.count
            = input.count + SeqSum([i \in 1..Len(run.trace) |-> Contribution(run.trace[i])])
    /\ (g = "counter_graph" /\ run.status = "DONE") =>
          run.values.count = input.count + 8
    /\ (g = "merge_round" /\ run.status = "DONE") =>
          run.values.count
            = input.count + SeqSum([i \in 1..Len(script) |-> Contribution(script[i])])

C3_Witness ==
    /\ g = "merge_round"
    /\ run.status = "DONE"
    /\ input.count = 0
    /\ script = <<"add5", "add3">>
    /\ run.trace = <<"add3", "add5">>
    /\ run.values.count = 8

(* v occurs in s and t equally often, for every v of either. *)
SameBag(s, t) == \A v \in Range(s) \cup Range(t) : Count(s, v) = Count(t, v)

(* C4: in the map-reduce graphs the routing function on START returns one  *)
(* Send per item: for N >= 1 items the map step runs N times, once per     *)
(* item, the convergence step runs once, and it starts only after all N    *)
(* results are merged, so it sees a list of exactly N results.             *)
C4_MapReduceJoin ==
    /\ g = "graph_1" =>
         LET N == Len(input.numbers)
             squares == [i \in 1..N |-> input.numbers[i] * input.numbers[i]]
         IN  /\ Count(run.attempts, "square_number") <= N
             /\ Count(run.attempts, "sum_squares") <= 1
             /\ "sum_squares" \in Range(run.attempts) =>
                   /\ N >= 1
                   /\ Count(run.trace, "square_number") = N
                   /\ SameBag(run.values.squared, squares)
             /\ (run.status = "DONE" /\ N >= 1) =>
                   /\ Count(run.trace, "square_number") = N
                   /\ Count(run.trace, "sum_squares") = 1
                   /\ Len(run.values.squared) = N
                   /\ run.values.sum_of_squares = SeqSum(squares)
    /\ g = "graph_3" =>
         LET N == Len(input.topics)
         IN  /\ Count(run.attempts, "research_topic") <= N
             /\ Count(run.attempts, "combine_research") <= 1
             /\ "combine_research" \in Range(run.attempts) =>
                   /\ N >= 1
                   /\ Count(run.trace, "research_topic") = N
                   /\ SameBag([i \in 1..Len(run.values.topic_reports) |->
                                 run.values.topic_reports[i].topic], input.topics)
             /\ (run.status = "DONE" /\ N >= 1) =>
                   /\ Count(run.trace, "research_topic") = N
                   /\ Count(run.trace, "combine_research") = 1
                   /\ Len(run.values.topic_reports) = N
                   /\ run.values.final_summary.topics_researched = N

C4_Witness ==
    /\ g = "graph_1"
    /\ input.numbers = <<1, 2, 3>>
    /\ run.status = "DONE"
    /\ run.values.squared = <<9, 1, 4>>
    /\ run.values.sum_of_squares = 14

(* C5: in a -> {b, c} -> d over a field without reducer, the round in      *)
(* which b and c both write the field ends in an error: the run becomes    *)
(* FAILED, d never runs, and the Record holds neither branch's value.      *)
C5_AmbiguousWriteFails ==
    g = "par_noreducer" =>
      /\ run.status # "DONE"
      /\ "d" \notin Range(run.attempts)
      /\ \A i \in 1..Len(run.tasks) : run.tasks[i].node # "d"
      /\ run.status # "PENDING" =>
            /\ "I'm B" \notin Range(run.values.state)
            /\ "I'm C" \notin Range(run.values.state)
      /\ {"b", "c"} \subseteq Range(run.trace) =>
            \/ run.status = "FAILED"
            \/ /\ run.status = "RUNNING"
               /\ Len(run.tasks) = 2
               /\ \A i \in 1..2 : run.tasks[i].st = "done"
      /\ run.status = "FAILED" =>
            /\ run.last = "InvalidUpdateError"
            /\ run.values.state = <<"I'm A">>

C5_Witness ==
    /\ g = "par_noreducer"
    /\ run.status = "FAILED"
    /\ run.trace = <<"a", "c", "b">>

(* C6: in the fan-out/fan-in graphs over an append field (a -> {b, c} -> d *)
(* and a -> {b -> b2, c} with [b2, c] -> d), d runs once and starts only   *)
(* after every branch has merged its write, also when c completes a round  *)
(* before b2; the final list holds each node's value once.                 *)
Secrets(gr) ==
    IF gr = "uneven" THEN {"I'm A", "I'm B", "I'm B2", "I'm C", "I'm D"}
    ELSE {"I'm A", "I'm B", "I'm C", "I'm D"}

C6_JoinBarrier ==
    g \in {"par_reducer", "uneven"} =>
      /\ Count(run.attempts, "d") <= 1
      /\ "d" \in Range(run.attempts) =>
            Secrets(g) \ {"I'm D"} \subseteq Range(run.values.state)
      /\ run.status \notin {"FAILED", "PAUSED"}
      /\ run.status = "DONE" =>
            /\ Count(run.trace, "d") = 1
            /\ run.trace[Len(run.trace)] = "d"
            /\ \A v \in Secrets(g) : Count(run.values.state, v) = 1
            /\ Len(run.values.state) = Len(input.state) + Cardinality(Secrets(g))

C6_Witness ==
    /\ g = "uneven"
    /\ run.status = "DONE"
    /\ run.trace = <<"a", "c", "b", "b2", "d">>
    /\ run.values.state = <<"I'm A", "I'm B", "I'm C", "I'm B2", "I'm D">>

(* C7: a round changes only the fields its steps return: every field not   *)
(* written in the round has the same value after the merge as before, and  *)
(* no other step of the runner changes the Record; CounterState.name stays *)
(* the caller's "MyCounter" and MyAppState.user_name the caller's name.    *)
RoundWrites(r) == WrittenFields([i \in 1..Len(r.tasks) |-> r.tasks[i].writes])

C7_Carried ==
    /\ (g = "counter_graph" /\ run.status # "PENDING") => run.values.name = "MyCounter"
    /\ (g = "app_graph" /\ run.status # "PENDING") =>
          run.values.user_name = input.user_name

C7_FrameStep ==
    (run.status # "PENDING" /\ run'.last # "update") =>
       \A f \in DOMAIN run.values :
          (run'.last = "merge" /\ f \in RoundWrites(run))
          \/ (f \in DOMAIN run'.values /\ run'.values[f] = run.values[f])

C7_FrameEffect == []C7_Carried /\ [][C7_FrameStep]_vars

C7_Witness ==
    /\ g = "counter_graph"
    /\ run.status = "DONE"
    /\ run.values.count = 18
    /\ run.values.name = "MyCounter"

(* The next steps of the run: state.next. *)
NextNodes == [i \in 1..Len(run.tasks) |-> run.tasks[i].node]

IsPrefix(s, t) == Len(s) <= Len(t) /\ SubSeq(t, 1, Len(s)) = s

(* The same conversation run by the same builder (same assistant, same     *)
(* tools) compiled without breakpoint, with the same language-model        *)
(* outputs.                                                                *)
PlainAgentRun == RunToEnd("agent_no_bp", script, InvokeOp("agent_no_bp", input, NewRun))

(* C8: in the agent graph compiled with interrupt_before=["tools"], a      *)
(* paused run has next == tools; resuming it with null input and no edits  *)
(* runs exactly that step; the steps executed are, in order, those of the  *)
(* graph without breakpoint on the same step outputs, and the final Record *)
(* is the same.                                                            *)
C8_PauseTransparent ==
    (g = "agent_bp" /\ run.ops = run.resumes) =>
      /\ run.status = "PAUSED" => NextNodes = <<"tools">>
      /\ run.last = "resume" =>
            /\ run.status = "RUNNING"
            /\ run.tasks = <<Task("tools", FALSE, EmptyRec)>>
      /\ IsPrefix(run.trace, PlainAgentRun.trace)
      /\ run.status = "DONE" =>
            /\ PlainAgentRun.status = "DONE"
            /\ run.trace = PlainAgentRun.trace
            /\ run.values = PlainAgentRun.values

C8_Witness ==
    /\ g = "agent_bp"
    /\ run.status = "DONE"
    /\ run.resumes = 2
    /\ run.trace = <<"assistant", "tools", "assistant", "tools", "assistant">>

ToolResults(messages) == {i \in 1..Len(messages) : messages[i].type = "tool"}

(* The parts of C9 about when tools may run. *)
C9_ToolsNeedResume ==
    /\ (run.status = "RUNNING" /\ \E i \in 1..Len(run.tasks) :
            run.tasks[i].node = "tools" /\ run.tasks[i].st = "todo") =>
          run.last = "resume"
    /\ Count(run.attempts, "tools") <= run.resumes
    /\ run.resumes <= Count(run.attempts, "tools") + 1
    /\ run.status = "PAUSED" =>
          /\ NextNodes = <<"tools">>
          /\ Count(run.attempts, "tools") = run.resumes

C10_Paused ==
    g = "dyn" =>
      /\ run.last = "interrupt" =>
            /\ run.status = "PAUSED"
            /\ NextNodes = <<"step_2">>
            /\ Len(run.values.input) > 5
            /\ run.trace = <<"step_1">>
            /\ Count(run.attempts, "step_2") = run.resumes + 1
      /\ (run.status # "PENDING" /\ run.ops = run.resumes) => run.values = input
      /\ (Len(input.input) > 5 /\ run.ops = run.resumes) =>
            /\ run.status \in {"PENDING", "RUNNING", "PAUSED"}
            /\ run.status = "PAUSED" => run.last = "interrupt"
            /\ run.last = "resume" => run.tasks = <<Task("step_2", FALSE, EmptyRec)>>
      /\ "step_3" \in Range(run.attempts) => Len(run.values.input) <= 5

C10_Step ==
    (g = "dyn" /\ run'.last \in {"interrupt", "resume"}) => run'.values = run.values

C10_InterruptRepeats == []C10_Paused /\ [][C10_Step]_vars

C10_Witness ==
    /\ g = "dyn"
    /\ run.last = "interrupt"
    /\ run.resumes = 3
    /\ run.ops = 3
    /\ Count(run.attempts, "step_2") = 4

(* C11: a run of the three-step graph paused by step_2's interrupt, whose  *)
(* input the caller then edits to at most 5 characters and resumes, runs   *)
(* step_2 and then step_3 and reaches DONE; step_1 does not run again and  *)
(* the final input is the edited value.                                    *)
C11_EditedAndResumed ==
    /\ g = "dyn"
    /\ run.last = "resume"
    /\ Len(input.input) > 5
    /\ Len(run.values.input) <= 5

C11_Inv ==
    g = "dyn" =>
      /\ Count(run.attempts, "step_1") <= 1
      /\ C11_EditedAndResumed =>
            /\ run.tasks = <<Task("step_2", FALSE, EmptyRec)>>
            /\ run.trace = <<"step_1">>
      /\ (run.status = "DONE" /\ Len(input.input) > 5) =>
            /\ run.trace = <<"step_1", "step_2", "step_3">>
            /\ run.ops > run.resumes
            /\ [input |-> run.values.input] \in Updates("dyn")
            /\ Len(run.values.input) <= 5

(* Only the caller's edit changes the Record of a started run. *)
C11_Step ==
    (g = "dyn" /\ run.status # "PENDING" /\ run'.last # "update") =>
       run'.values = run.values

C11_FixThenResumeCompletes ==
    /\ []C11_Inv
    /\ [][C11_Step]_vars
    /\ (C11_EditedAndResumed ~> (run.status = "DONE"))

C11_Witness ==
    /\ g = "dyn"
    /\ run.status = "DONE"
    /\ Len(input.input) = 6
    /\ run.values.input = <<"h", "i">>
    /\ run.attempts = <<"step_1", "step_2", "step_2", "step_3">>

(* C12: a run of the three-step graph pauses if and only if its input is   *)
(* longer than 5 characters; with an input of at most 5 characters it runs *)
(* step_1, step_2, step_3 in that order, is never PAUSED, and ends DONE    *)
(* with the Record unchanged.                                              *)
C12_Inv ==
    g = "dyn" =>
      /\ Len(input.input) <= 5 =>
            /\ run.status \in {"PENDING", "RUNNING", "DONE"}
            /\ run.last # "interrupt"
            /\ run.ops = 0
            /\ run.attempts = run.trace
            /\ IsPrefix(run.trace, <<"step_1", "step_2", "step_3">>)
            /\ run.status # "PENDING" => run.values = input
            /\ run.status = "DONE" => run.trace = <<"step_1", "step_2", "step_3">>
      /\ (run.status = "PAUSED" /\ run.ops = 0) =>
            /\ Len(input.input) > 5
            /\ run.last = "interrupt"

C12_PausesIffLong ==
    /\ []C12_Inv
    /\ ((g = "dyn" /\ run.status = "PENDING" /\ Len(input.input) <= 5)
           ~> (run.status = "DONE"))
    /\ ((g = "dyn" /\ run.status = "PENDING" /\ Len(input.input) > 5)
           ~> (run.status = "PAUSED"))

C12_Witness ==
    /\ g = "dyn"
    /\ Len(input.input) = 5
    /\ run.status = "DONE"
    /\ run.trace = <<"step_1", "step_2", "step_3">>
    /\ run.values = input

(* C13: in the approval workflow validate -> execute, once a transaction   *)
(* over 1000 has paused at validate and the caller has set approved=True   *)
(* (amount as it was) and resumed, the run continues through execute and   *)
(* reaches DONE.                                                           *)
C13_ApprovedCompletes ==
    (/\ g = "approval"
     /\ run.last = "resume"
     /\ input.amount > 1000
     /\ run.values.approved
     /\ run.values.amount = input.amount)
       ~> (run.status = "DONE" /\ "execute" \in Range(run.trace))

(* C17: two runs of a graph from the same snapshot with the same input     *)
(* take the same step at every routing decision and produce the same       *)
(* Record; stated for the graphs routed by decide_mood, against the run    *)
(* from the same input whose draws all come out below one half.            *)
C17_DeterministicRouting ==
    g \in {"simple_graph", "typed_dict_graph"} =>
       LET other == RunToEnd(g, script, InvokeOp(g, input, NewRun))
       IN  /\ BetweenRounds =>
                 \/ IsPrefix(run.trace \o NextNodes, other.trace)
                 \/ run.trace = other.trace
           /\ run.status = "DONE" => run.values = other.values

(* The operations of the log, by position. *)
LogOps == 1..Len(log)

(* The operation a step adds to the log. *)
LastOp == log[Len(log)]

(* Snapshot a of a thread's history is snapshot i or one of its ancestors. *)
RECURSIVE IsAncestor(_, _, _)
IsAncestor(hist, a, i) ==
    \/ i = a
    \/ (i > a /\ hist[i].parent # 0 /\ IsAncestor(hist, a, hist[i].parent))

(* The finished snapshots of the branch that starts at snapshot a. *)
FinishedBelow(hist, a) ==
    {i \in 1..Len(hist) : Len(hist[i].tasks) = 0 /\ IsAncestor(hist, a, i)}

(* The operations that forked snapshot k of thread t with a given text. *)
IsFork(i) == log[i].op = "update_state"

(* C14: forks made from the same snapshot k of a thread with different     *)
(* corrective inputs are both listed in the thread's history as children   *)
(* of k holding their own input; once a fork's config has been resumed its *)
(* branch holds a finished run answering that fork's input; running a fork *)
(* changes and removes no snapshot of the other fork or of the original    *)
(* branch.                                                                 *)
C14_Inv ==
    g = "time_travel" =>
      \A i \in LogOps :
         IsFork(i) =>
           LET hist == store[log[i].thread]
               f == log[i].result
           IN  /\ f <= Len(hist)
               /\ hist[f].parent = log[i].k
               /\ hist[f].source = "update"
               /\ hist[f].values.messages[1].text = log[i].text
               /\ \A j \in LogOps :
                     (j > i /\ log[j].op = "stream" /\ log[j].thread = log[i].thread
                        /\ log[j].k = f) =>
                       \E e \in FinishedBelow(hist, f) :
                          LET ms == hist[e].values.messages
                          IN  /\ ms[1].text = log[i].text
                              /\ \E m \in 1..Len(ms) :
                                    /\ ms[m].type = "tool"
                                    /\ ms[m].num = RunTool(ToolCallsFor(log[i].text)[1])

C14_Step ==
    (g = "time_travel" /\ Len(log') > Len(log) /\ log'[Len(log')].op = "stream") =>
       \A t \in Threads :
          /\ Len(store'[t]) >= Len(store[t])
          /\ SubSeq(store'[t], 1, Len(store[t])) = store[t]

C14_ForksIndependent == []C14_Inv /\ [][C14_Step]_vars

C14_Witness ==
    /\ g = "time_travel"
    /\ Len(log) = 5
    /\ log[2].op = "update_state" /\ log[2].text = "Add 10 and 5"
    /\ log[3].op = "stream" /\ log[3].k = log[2].result
    /\ log[4].op = "update_state" /\ log[4].k = log[2].k
    /\ log[4].text = "Multiply 2 and 2"
    /\ log[5].op = "stream" /\ log[5].k = log[4].result
    /\ FinishedBelow(store["thread_1"], log[2].result) # {}
    /\ FinishedBelow(store["thread_1"], log[4].result) # {}

(* C15: the snapshot history of a thread is append-only and tree-shaped:   *)
(* every operation (run, resume, replay from an older snapshot,            *)
(* update_state on an older snapshot) leaves every snapshot already        *)
(* written in place with the same Record, next steps and parent, and a     *)
(* fork adds one new child of the chosen snapshot.                         *)
C15_Tree ==
    \A t \in Threads :
       \A i \in 1..Len(store[t]) :
          /\ store[t][i].parent < i
          /\ store[t][i].parent = 0 => store[t][i].source = "input"

C15_Step ==
    /\ \A t \in Threads :
          /\ Len(store'[t]) >= Len(store[t])
          /\ \A i \in 1..Len(store[t]) : store'[t][i] = store[t][i]
    /\ (Len(log') > Len(log) /\ log'[Len(log')].op = "update_state") =>
          LET e == log'[Len(log')]
              old == store[e.thread]
              new == store'[e.thread]
          IN  /\ Len(new) = Len(old) + 1
              /\ e.result = Len(new)
              /\ new[Len(new)].parent = e.k
              /\ new[Len(new)].source = "update"

C15_AppendOnly == []C15_Tree /\ [][C15_Step]_vars

C15_Witness ==
    /\ g = "time_travel"
    /\ \E k \in 1..Len(store["thread_1"]) :
          Cardinality({i \in 1..Len(store["thread_1"]) :
                         store["thread_1"][i].parent = k}) >= 3

(* C16: replaying from a past snapshot (stream with null input and the     *)
(* snapshot's config) creates no new checkpoints: the thread's snapshot    *)
(* history after the replay is the same as before it.                      *)
C16_ReplayWritesNothing ==
    [][(Len(log') > Len(log) /\ log'[Len(log')].op = "stream") => store' = store]_vars

(* The invocations made under thread_id t, in the order they were made. *)
InvokesOn(t) == SelectSeq(log, LAMBDA e : e.op = "invoke" /\ e.thread = t)

(* The texts of the human messages of a list of messages, in order. *)
HumanTexts(ms) ==
    LET hs == SelectSeq(ms, LAMBDA m : m.type = "human")
    IN  [i \in 1..Len(hs) |-> hs[i].text]

(* The length the history of a thread had before its n-th invocation. *)
LenBefore(t, n) == IF n = 1 THEN 0 ELSE InvokesOn(t)[n - 1].result

(* C18: with invocations on two thread_ids interleaved in any order on one *)
(* compiled graph and checkpointer, the history of a thread holds the      *)
(* snapshots of the invocations made under its thread_id and no others,    *)
(* each invocation's snapshots hold human messages submitted under that    *)
(* thread_id only, the last of them the invocation's own, and the tool     *)
(* calls answer that message; an invocation on one thread leaves the       *)
(* other thread's history as it was.                                       *)
C18_Inv ==
    g \in {"memory_agent", "chatbot"} =>
      \A t \in Threads :
         LET inv == InvokesOn(t)
             hist == store[t]
         IN  /\ Len(hist) = (IF Len(inv) = 0 THEN 0 ELSE inv[Len(inv)].result)
             /\ \A n \in 1..Len(inv) :
                   /\ hist[LenBefore(t, n) + 1].source = "input"
                   /\ \A k \in (LenBefore(t, n) + 2)..inv[n].result :
                         LET ms == hist[k].values.messages
                             hs == HumanTexts(ms)
                         IN  /\ Len(hs) > 0
                             /\ hs[Len(hs)] = inv[n].text
                             /\ \A h \in 1..Len(hs) :
                                   \E m \in 1..n : inv[m].text = hs[h]
                             /\ \A m \in 1..Len(ms) :
                                   (ms[m].type = "ai" /\ Len(ms[m].calls) > 0) =>
                                      \E j \in 1..n :
                                         ms[m].calls = ToolCallsFor(inv[j].text)
                             /\ g = "memory_agent" =>
                                   hs = [m \in 1..n |-> inv[m].text]

C18_Step ==
    (g \in {"memory_agent", "chatbot"} /\ Len(log') > Len(log)
       /\ log'[Len(log')].op = "invoke") =>
       \A t \in Threads : t # log'[Len(log')].thread => store'[t] = store[t]

C18_ThreadsIsolated == []C18_Inv /\ [][C18_Step]_vars

C18_Witness ==
    /\ g = "memory_agent"
    /\ Len(log) = 3
    /\ log[1].thread = "thread_1" /\ log[1].text = "Add 10 and 5"
    /\ log[2].thread = "thread_2" /\ log[2].text = "Multiply 2 and 2"
    /\ log[3].thread = "thread_1" /\ log[3].text = "Multiply 2 and 2"
    /\ Len(store["thread_1"]) > Len(store["thread_2"])
    /\ Len(store["thread_2"]) > 0

(* C19: an invocation with new input under a thread_id that already has   *)
(* snapshots starts from the thread's latest snapshot: the Record the      *)
(* first step sees holds the stored messages followed by the new human     *)
(* message, the first step is the graph's entry node and its snapshot      *)
(* keeps those messages in front of its answer; the same holds when the    *)
(* graph was rebuilt over the same store before the invocation.            *)
C19_Step ==
    (g \in {"memory_agent", "chatbot"} /\ Len(log') > Len(log)
       /\ log'[Len(log')].op = "invoke"
       /\ Len(store[log'[Len(log')].thread]) > 0) =>
       LET e == log'[Len(log')]
           old == store[e.thread]
           new == store'[e.thread]
           n == Len(old)
           stored == old[n].values.messages
           seen == new[n + 2].values.messages
       IN  /\ Len(new) >= n + 3
           /\ new[n + 1].source = "input"
           /\ new[n + 1].parent = n
           /\ new[n + 1].values = old[n].values
           /\ Len(seen) = Len(stored) + 1
           /\ SubSeq(seen, 1, Len(stored)) = stored
           /\ seen[Len(seen)].type = "human"
           /\ seen[Len(seen)].text = e.text
           /\ NextOf(new[n + 2]) = <<NodeOrder(g)[1]>>
           /\ new[n + 3].writer = NodeOrder(g)[1]
           /\ SubSeq(new[n + 3].values.messages, 1, Len(seen)) = seen

C19_ContinuesFromLatest == [][C19_Step]_vars

C19_Witness ==
    /\ g = "chatbot"
    /\ Len(log) = 3
    /\ log[1].op = "invoke" /\ log[1].thread = "thread_1"
    /\ log[2].op = "restart"
    /\ log[3].op = "invoke" /\ log[3].thread = "thread_1"
    /\ Len(store["thread_1"][Len(store["thread_1"])].values.messages) = 4

(* C20: in the summarizing chatbot the step after conversation is          *)
(* summarize_conversation exactly when the Record holds more than 6        *)
(* messages and otherwise the run ends; should_continue returns no         *)
(* identifier other than summarize_conversation and the terminal marker;   *)
(* after summarize_conversation the run ends.                              *)
C20_RouterBySize ==
    g = "chatbot" =>
      \A t \in Threads :
         \A k \in 1..Len(store[t]) :
            LET c == store[t][k]
                n == Len(c.values.messages)
            IN  /\ (c.source = "loop" /\ c.writer = "conversation") =>
                      /\ n > 6 => NextOf(c) = <<"summarize_conversation">>
                      /\ n <= 6 => NextOf(c) = <<>>
                      /\ should_continue(c.values) \in {"summarize_conversation", END}
                /\ (c.source = "loop" /\ c.writer = "summarize_conversation") =>
                      /\ NextOf(c) = <<>>
                      /\ k > 1
                      /\ store[t][k - 1].writer = "conversation"
                      /\ Len(store[t][k - 1].values.messages) > 6

C20_Witness ==
    /\ g = "chatbot"
    /\ \E t \in Threads :
          /\ \E k \in 1..Len(store[t]) :
                /\ store[t][k].writer = "summarize_conversation"
                /\ Len(store[t][k].values.messages) = 2
          /\ \E k \in 1..Len(store[t]) :
                /\ store[t][k].writer = "conversation"
                /\ Len(store[t][k].values.messages) = 6
                /\ NextOf(store[t][k]) = <<>>

(* The last 2 of a list of messages, in their order. *)
Last2(ms) == SubSeq(ms, Len(ms) - 1, Len(ms))

(* The round that merges the writes of the one node named. *)
MergesOnly(node) ==
    /\ run.status = "RUNNING"
    /\ Len(run.tasks) = 1
    /\ run.tasks[1].node = node
    /\ run.tasks[1].st = "done"
    /\ run'.last = "merge"

(* C21: after summarize_conversation ran on a Record with n >= 2 messages  *)
(* the Record holds exactly the last 2 of them in their order, none of the *)
(* n - 2 older ones, and the summary produced; after filter_messages_node  *)
(* the Record holds exactly the last 2 of the messages it ran on.          *)
C21_Summarized ==
    g = "chatbot" =>
      \A t \in Threads :
         \A k \in 1..Len(store[t]) :
            (store[t][k].source = "loop"
               /\ store[t][k].writer = "summarize_conversation") =>
               LET before == store[t][store[t][k].parent].values
                   after == store[t][k].values
                   n == Len(before.messages)
               IN  /\ n >= 2
                   /\ after.messages = Last2(before.messages)
                   /\ \A i \in 1..(n - 2) :
                         \A j \in 1..Len(after.messages) :
                            after.messages[j].id # before.messages[i].id
                   /\ after.summary =
                         (IF Get(before, "summary", "") = ""
                          THEN "summary" ELSE "extended summary")

C21_FilterStep ==
    (g = "graph_v1" /\ MergesOnly("filter") /\ Len(run.values.messages) >= 2) =>
       /\ run'.values.messages = Last2(run.values.messages)
       /\ Len(run'.values.messages) = 2

C21_KeepsLast2 == []C21_Summarized /\ [][C21_FilterStep]_vars

C21_Witness ==
    /\ g = "chatbot"
    /\ \E t \in Threads :
          \E k \in 1..Len(store[t]) :
             /\ store[t][k].writer = "summarize_conversation"
             /\ Len(store[t][store[t][k].parent].values.messages) = 8
             /\ store[t][k].values.summary = "summary"

(* The filter step ran on the 6 sample messages and kept 2. *)
C21_FilterRan ==
    /\ g = "graph_v1"
    /\ Len(input.messages) = 6
    /\ run.trace = <<"filter">>
    /\ run.last = "merge"
    /\ Len(run.values.messages) = 2

(* The fields a step wrote that the output schema does not name. *)
InternalFields(gr) == DOMAIN Schema(gr) \ OutputKeys(gr)

(* C22: for a graph compiled with an output schema, what the caller gets   *)
(* back holds the keys of the output schema only; the internal fields a    *)
(* step wrote (notes; debug_info, api_calls, timestamp) are in the Record  *)
(* the later step runs on, and in no returned Record.                      *)
C22_OutputFiltered ==
    g \in {"graph_v2", "chatbot_io"} =>
       /\ run.status = "DONE" =>
             /\ DOMAIN Output(g, run) \subseteq OutputKeys(g)
             /\ DOMAIN Output(g, run) \cap {"notes", "debug_info", "api_calls", "timestamp"} = {}
             /\ \A f \in DOMAIN Output(g, run) : Output(g, run)[f] = run.values[f]
             /\ g = "graph_v2" => Output(g, run) = [answer |-> "bye Lance"]
             /\ g = "chatbot_io" =>
                   Output(g, run) = [response |-> <<"Echo: ", input.user_message>>]
       /\ (run.status \in {"RUNNING", "DONE"} /\ Len(run.trace) >= 1 /\ BetweenRounds) =>
             /\ g = "graph_v2" => run.values.notes = "... his name is Lance"
             /\ g = "chatbot_io" =>
                   /\ run.values.debug_info = "Model: GPT-4, Tokens: 150"
                   /\ run.values.api_calls = 1
                   /\ run.values.timestamp = "2026-01-10 14:30:00"

C22_Witness ==
    /\ g = "chatbot_io"
    /\ run.status = "DONE"
    /\ run.trace = <<"process", "finalize">>
    /\ "debug_info" \in DOMAIN run.values
    /\ DOMAIN Output(g, run) = {"response"}

(* C23: in the log-analysis parent graph each sub-graph hands back the     *)
(* keys of its output schema only, so in the round where failure_analysis  *)
(* and question_summarization both complete the one field both write is    *)
(* processed_logs (append reducer): the run never fails with an ambiguous  *)
(* write, is DONE only after both sub-graphs completed, and the final      *)
(* processed_logs is the concatenation of the two sub-graphs' lists.       *)
C23_SubgraphsJoin ==
    g = "entry_graph" =>
       LET cleaned == [cleaned_logs |-> input.raw_logs, processed_logs |-> <<>>]
           fa == Subgraph("fa_graph", cleaned)
           qs == Subgraph("qs_graph", cleaned)
       IN  /\ run.status # "FAILED"
           /\ DOMAIN fa = {"fa_summary", "processed_logs"}
           /\ DOMAIN qs = {"report", "processed_logs"}
           /\ \A i \in 1..Len(run.tasks) :
                 run.tasks[i].st = "done" =>
                    (run.tasks[i].node = "failure_analysis" =>
                        DOMAIN run.tasks[i].writes = {"fa_summary", "processed_logs"})
                    /\ (run.tasks[i].node = "question_summarization" =>
                          DOMAIN run.tasks[i].writes = {"report", "processed_logs"})
           /\ run.status = "DONE" =>
                 /\ Count(run.trace, "failure_analysis") = 1
                 /\ Count(run.trace, "question_summarization") = 1
                 /\ run.trace[1] = "clean_logs"
                 /\ run.values.processed_logs \in
                       {fa.processed_logs \o qs.processed_logs,
                        qs.processed_logs \o fa.processed_logs}
                 /\ Len(run.values.processed_logs) =
                       Len(input.raw_logs)
                       + Cardinality({i \in 1..Len(input.raw_logs) :
                                        input.raw_logs[i] = question_answer_feedback})
                 /\ run.values.cleaned_logs = input.raw_logs
                 /\ run.values.fa_summary = fa.fa_summary
                 /\ run.values.report = qs.report

C23_Witness ==
    /\ g = "entry_graph"
    /\ run.status = "DONE"
    /\ input.raw_logs = <<question_answer_feedback, question_answer_success>>
    /\ Len(run.values.processed_logs) = 3

(* The ids of a list of messages. *)
IdsOf(ms) == {ms[i].id : i \in 1..Len(ms)}

(* What add_messages is to make of the one-message update m on old. *)
ReplacedOrAppended(old, new, m) ==
    LET hit == {i \in 1..Len(old) : m.id # 0 /\ old[i].id = m.id}
    IN  IF hit # {}
        THEN /\ Len(new) = Len(old)
             /\ \A i \in 1..Len(old) :
                   new[i] = (IF i \in hit THEN m ELSE old[i])
        ELSE /\ Len(new) = Len(old) + 1
             /\ SubSeq(new, 1, Len(old)) = old
             /\ new[Len(new)].type = m.type
             /\ new[Len(new)].text = m.text
             /\ new[Len(new)].id \notin IdsOf(old)
             /\ m.id # 0 => new[Len(new)].id = m.id

(* C24: under the message reducer an update with a message whose id is the *)
(* id of a message of the Record replaces that message in place (count and *)
(* position unchanged, content replaced); an update with a message with a  *)
(* new id or without id appends it (count one more, earlier messages       *)
(* unchanged).                                                             *)
C24_Step ==
    (g = "graph_edit_before" /\ run.status = "PAUSED") =>
       \A upd \in Updates(g) :
          run' = UpdateStateOp(g, run, upd) =>
             ReplacedOrAppended(run.values.messages, run'.values.messages,
                                upd.messages[1])

C24_ReplaceOrAppend == [][C24_Step]_vars

C24_Witness ==
    /\ g = "graph_edit_before"
    /\ run.last = "update"
    /\ Len(run.values.messages) = 4
    /\ run.values.messages[1].text = "Actually, multiply 7 and 8!"
    /\ run.values.messages[4].text = "No, actually multiply 3 and 3!"
    /\ run.values.messages[4].id \notin {0, NewId}

(* C25: in the feedback graph paused before human_feedback, update_state   *)
(* with as_node = "human_feedback" makes assistant the next step; resuming *)
(* runs assistant, human_feedback is not executed, and the run pauses      *)
(* before human_feedback again only once tools has routed back to it; with *)
(* the update {"messages": []} the messages stay as they were.             *)
C25_Inv ==
    g = "graph_with_feedback" =>
       /\ Count(run.attempts, "human_feedback") = 0
       /\ run.status = "PAUSED" =>
             \/ /\ run.last \in {"invoke", "merge"}
                /\ NextNodes = <<"human_feedback">>
                /\ (run.last = "merge" => run.trace[Len(run.trace)] = "tools")
             \/ /\ run.last = "update"
                /\ NextNodes = <<"assistant">>
       /\ (run.status = "RUNNING" /\ run.last = "resume") => NextNodes = <<"assistant">>

C25_Step ==
    (g = "graph_with_feedback" /\ run.status = "PAUSED"
       /\ NextNodes = <<"human_feedback">>) =>
       \A upd \in Updates(g) :
          run' = UpdateStateOp(g, run, upd) =>
             /\ [i \in 1..Len(run'.tasks) |-> run'.tasks[i].node] = <<"assistant">>
             /\ run'.trace = run.trace
             /\ run'.attempts = run.attempts
             /\ upd.messages = <<>> => run'.values.messages = run.values.messages
             /\ upd.messages # <<>> =>
                   /\ Len(run'.values.messages) = Len(run.values.messages) + 1
                   /\ run'.values.messages[Len(run'.values.messages)].text
                         = upd.messages[1].text

C25_AsNodeFeedback == []C25_Inv /\ [][C25_Step]_vars

C25_Witness ==
    /\ g = "graph_with_feedback"
    /\ run.status = "PAUSED"
    /\ run.last = "merge"
    /\ run.resumes = 1
    /\ run.trace = <<"assistant", "tools">>
    /\ NextNodes = <<"human_feedback">>

(* The node that completed last. *)
LastRan == IF Len(run.trace) = 0 THEN START ELSE run.trace[Len(run.trace)]

(* The last message of the Record carries a tool call. *)
LastCallsTool ==
    LET ms == run.values.messages
    IN  ms[Len(ms)].type = "ai" /\ Len(ms[Len(ms)].calls) > 0

(* C26: in the agent graph every execution of tools is immediately         *)
(* followed by an execution of assistant; the run is DONE if and only if   *)
(* the most recent assistant output carries no tool call; the last message *)
(* of a finished run is neither a tool-call request nor a tool result.     *)
C26_Inv ==
    g = "agent" =>
       /\ \A i \in 1..Len(run.trace) :
             run.trace[i] = "tools" =>
                /\ i > 1 /\ run.trace[i - 1] = "assistant"
                /\ IF i < Len(run.trace) THEN run.trace[i + 1] = "assistant"
                   ELSE run.status = "RUNNING"
                        /\ (BetweenRounds => NextNodes = <<"assistant">>)
       /\ (BetweenRounds /\ LastRan = "assistant") =>
             /\ run.status = "DONE" <=> ~LastCallsTool
             /\ run.status = "RUNNING" <=> LastCallsTool
             /\ LastCallsTool => NextNodes = <<"tools">>
       /\ run.status = "DONE" =>
             /\ LastRan = "assistant"
             /\ run.values.messages[Len(run.values.messages)].type = "ai"
             /\ ~LastCallsTool

C26_AgentLoop ==
    /\ []C26_Inv
    /\ (g = "agent" /\ LastRan = "tools") ~> (g = "agent" /\ LastRan = "assistant")
    /\ (g = "agent") ~> (g = "agent" /\ run.status = "DONE")

C26_Witness ==
    /\ g = "agent"
    /\ run.status = "DONE"
    /\ run.trace = <<"assistant", "tools", "assistant", "tools", "assistant">>

(* C27: every run of the simple graph executes node_1 first, then exactly  *)
(* one of node_2 and node_3, then terminates; the final graph_state is the *)
(* input followed by " I am" and then " happy!" or " sad!".                *)
C27_SimpleGraphRuns ==
    g = "simple_graph" =>
       /\ run.trace \in {<<>>, <<"node_1">>, <<"node_1", "node_2">>, <<"node_1", "node_3">>}
       /\ (BetweenRounds /\ run.trace = <<"node_1">>) =>
              /\ run.status = "RUNNING"
              /\ NextNodes \in {<<"node_2">>, <<"node_3">>}
              /\ run.values.graph_state = input.graph_state \o <<" I am">>
       /\ (BetweenRounds /\ Len(run.trace) = 2) => run.status = "DONE"
       /\ run.status = "DONE" =>
              \/ /\ run.trace = <<"node_1", "node_2">>
                 /\ run.values.graph_state = input.graph_state \o <<" I am", " happy!">>
              \/ /\ run.trace = <<"node_1", "node_3">>
                 /\ run.values.graph_state = input.graph_state \o <<" I am", " sad!">>

C27_Witness ==
    /\ g = "simple_graph"
    /\ run.status = "DONE"
    /\ run.trace = <<"node_1", "node_3">>
    /\ run.values.graph_state = <<"Hi, this is Lance.", " I am", " sad!">>

(* A list in ascending order. *)
IsSorted(sq) == \A i \in 1..(Len(sq) - 1) : StrRank(sq[i]) <= StrRank(sq[i + 1])

(* The tasks of the round have all completed and their writes wait for the *)
(* merge.                                                                  *)
RoundCompleted ==
    /\ run.status = "RUNNING"
    /\ Len(run.tasks) > 0
    /\ \A i \in 1..Len(run.tasks) : run.tasks[i].st # "todo"

(* C28: with sorting_reducer on a -> {b -> b2, c} -> d the list is sorted  *)
(* ascending after every merge (the merge of the caller's input included), *)
(* every order of merging the writes of a round gives the same run, and    *)
(* the final list is the sorted input and node values whatever the order.  *)
C28_SortedAnyOrder ==
    g = "sorting" =>
       /\ run.status # "PENDING" => IsSorted(run.values.state)
       /\ RoundCompleted =>
             \A p, q \in Perms(Len(run.tasks)) : EndRoundOp(g, run, p) = EndRoundOp(g, run, q)
       /\ run.status \notin {"FAILED", "PAUSED"}
       /\ run.status = "DONE" =>
             run.values.state =
                sorted(input.state \o <<"I'm A", "I'm B", "I'm B2", "I'm C", "I'm D">>)

C28_Witness ==
    /\ g = "sorting"
    /\ run.status = "DONE"
    /\ input.state = <<"Message 0", "I'm C">>
    /\ run.trace = <<"a", "c", "b", "b2", "d">>
    /\ run.values.state = <<"I'm A", "I'm B", "I'm B2", "I'm C", "I'm C", "I'm D", "Message 0">>

(* The summaries of the documents of a list, in the list's order. *)
SummariesOf(docs) == [i \in 1..Len(docs) |-> summarize_doc([document |-> docs[i]]).summaries[1]]

(* What C29 says of a finished run of the two-stage map-reduce graph on N  *)
(* queries.                                                                *)
C29_Finished(N) ==
    /\ Count(run.trace, "search_query") = N
    /\ Count(run.trace, "summarize_doc") = N
    /\ Count(run.trace, "create_report") = 1
    /\ run.trace[Len(run.trace)] = "create_report"
    /\ Len(run.values.documents) = N
    /\ Len(run.values.summaries) = N
    /\ SameBag(run.values.summaries, SummariesOf(run.values.documents))
    /\ run.values.final_report.sources = N

(* C29 as stated, for every number of queries: a finished run has run      *)
(* search_query and summarize_doc N times each and create_report once.     *)
C29_Original ==
    (g = "graph_4" /\ run.status = "DONE") => C29_Finished(Len(input.queries))

(* C29: in the two-stage map-reduce graph on N >= 1 queries search_query   *)
(* runs N times, summarize_doc N times in total (each document summarized  *)
(* once), create_report once and only after all N summaries are merged,    *)
(* and the final Record has N documents and N summaries; on no query no    *)
(* node runs.                                                              *)
C29_TwoStageMapReduce ==
    g = "graph_4" =>
       LET N == Len(input.queries)
       IN  /\ Count(run.attempts, "search_query") <= N
           /\ Count(run.attempts, "summarize_doc") <= N
           /\ Count(run.attempts, "create_report") <= 1
           /\ "summarize_doc" \in Range(run.attempts) =>
                 /\ Count(run.trace, "search_query") = N
                 /\ Len(run.values.documents) = N
           /\ "create_report" \in Range(run.attempts) =>
                 /\ Count(run.trace, "summarize_doc") = N
                 /\ Len(run.values.summaries) = N
                 /\ SameBag(run.values.summaries, SummariesOf(run.values.documents))
           /\ run.status \notin {"FAILED", "PAUSED"}
           /\ (run.status = "DONE" /\ N >= 1) => C29_Finished(N)
           /\ (run.status = "DONE" /\ N = 0) =>
                 /\ run.trace = <<>>
                 /\ "final_report" \notin DOMAIN run.values

C29_Witness ==
    /\ g = "graph_4"
    /\ run.status = "DONE"
    /\ input.queries = <<"LangGraph", "Map-Reduce">>
    /\ run.trace = <<"search_query", "search_query", "summarize_doc", "summarize_doc",
                     "create_report">>
    /\ Len(run.values.summaries) = 2
    /\ run.values.documents[1].query = "Map-Reduce"

(* The run of the analysis sub-graph on the parent's Record. *)
AnalysisRun == SubgraphRun("analysis_graph", run.values)

(* analyze_results is the step to run next. *)
AnalysisNext == BetweenRounds /\ run.status = "RUNNING" /\ NextNodes = <<"analyze_results">>

(* C30: in the research-with-analysis graph the search results reach the   *)
(* sub-graph: where analyze_results is next, the sub-graph run on the      *)
(* parent's Record starts extract_facts with raw_data defined, finishes    *)
(* and hands back summary alone; the run never fails, and a finished run   *)
(* has final_report set.                                                   *)
C30_ResultsReachSubgraph ==
    g = "graph_2" =>
       /\ AnalysisNext =>
             /\ "extract_facts" \in Range(AnalysisRun.attempts)
             /\ "raw_data" \in DOMAIN AnalysisRun.values
             /\ AnalysisRun.status = "DONE"
             /\ DOMAIN Subgraph("analysis_graph", run.values) = {"summary"}
       /\ run.status # "FAILED"
       /\ run.status = "DONE" => "final_report" \in DOMAIN run.values

(* What the graph does: analyze_results fails on every input, before       *)
(* extract_facts when the parent holds no summary and in extract_facts     *)
(* when it does, and create_final_report never runs.                       *)
C30_AnalysisFails ==
    g = "graph_2" =>
       /\ AnalysisNext =>
             /\ AnalysisRun.status = "FAILED"
             /\ "raw_data" \notin DOMAIN AnalysisRun.values
             /\ "summary" \in DOMAIN input <=> AnalysisRun.attempts = <<"extract_facts">>
             /\ "summary" \notin DOMAIN input <=> AnalysisRun.last = "EmptyInputError"
       /\ run.trace \in {<<>>, <<"parallel_search">>}
       /\ run.status # "DONE"
       /\ run.status = "FAILED" => run.attempts = <<"parallel_search", "analyze_results">>

C30_Failed ==
    /\ g = "graph_2"
    /\ input = [query |-> "Multi-Agent Systems"]
    /\ run.status = "FAILED"
    /\ run.attempts = <<"parallel_search", "analyze_results">>
    /\ Len(run.values.search_results) = 3

(* The tool calls a run has executed: those of the AI messages that a tool *)
(* message follows.                                                        *)
ExecutedCalls ==
    LET ms == run.values.messages
    IN  {ms[i].calls[1] : i \in {j \in 1..(Len(ms) - 1) :
                                   ms[j].type = "ai" /\ Len(ms[j].calls) > 0
                                   /\ ms[j + 1].type = "tool"}}

(* C31: in the lessons with a divide tool (the agent, the agent with       *)
(* breakpoint) no executed call of a tool raises, divide(a, 0) included:   *)
(* the tool returns a value, and the run does not become FAILED.           *)
C31_DivideNeverRaises ==
    (g \in {"agent", "agent_bp"} /\ run.status # "PENDING") =>
       /\ \A c \in ExecutedCalls : ~CallTool(g, c).raised
       /\ run.status # "FAILED"

(* What the lessons do: the agent lesson's divide returns its error text;  *)
(* the breakpoints lesson's divide raises ZeroDivisionError, which only    *)
(* ToolNode turns into the content of the tool message; no run fails.      *)
C31_GuardedOrCaught ==
    (g \in {"agent", "agent_bp"} /\ run.status # "PENDING") =>
       /\ \A c \in ExecutedCalls :
             CallTool(g, c).raised <=> (g = "agent_bp" /\ c.name = "divide" /\ c.b = 0)
       /\ \A i \in 1..Len(run.values.messages) :
             LET m == run.values.messages[i]
             IN  (m.type = "tool" /\ m.text = "divide") =>
                    m.num = IF g = "agent" THEN "Error: Division by zero is not allowed"
                            ELSE <<"Error: ", "ZeroDivisionError('division by zero')",
                                   " Please fix your mistakes.">>
       /\ run.status # "FAILED"

C31_Raised ==
    /\ g = "agent_bp"
    /\ run.status = "DONE"
    /\ script = <<ToolCall("divide", 5, 0)>>
    /\ ToolCall("divide", 5, 0) \in ExecutedCalls

(* The last 3 elements of a list (all of it when it is shorter). *)
Last3(sq) == [i \in 1..(IF Len(sq) < 3 THEN Len(sq) ELSE 3) |->
                 sq[i + (IF Len(sq) < 3 THEN 0 ELSE Len(sq) - 3)]]

(* The messages the completed nodes of the run wrote, in order. *)
WrittenMessages ==
    [i \in 1..Len(run.trace) |-> NodeRun(g, run.trace[i], run.values, script).writes.messages[1]]

(* The lists a further step may write. *)
MoreWrites == SeqsUpTo({HumanMessage("Message 6"), AIMessage("Message 7")}, 2)

(* C32: with keep_last_3_messages the field holds at most 3 messages, and  *)
(* after every merge they are the last 3 elements, in order, of the        *)
(* caller's list followed by all the written messages; the same holds for  *)
(* any two further written sublists; five single-message steps from []     *)
(* leave Message 3, Message 4, Message 5.                                  *)
C32_KeepsLast3 ==
    (g = "limited_graph" /\ run.status # "PENDING") =>
       /\ Len(run.values.messages) <= 3
       /\ BetweenRounds =>
             run.values.messages = Last3(input.messages \o WrittenMessages)
       /\ \A b, c \in MoreWrites :
             LET after == keep_last_3_messages(
                              keep_last_3_messages(run.values.messages, b), c)
             IN  /\ Len(after) <= 3
                 /\ after = Last3(run.values.messages \o b \o c)
       /\ (run.status = "DONE" /\ input.messages = <<>>) =>
             run.values.messages =
                <<HumanMessage("Message 3"), AIMessage("Message 4"), HumanMessage("Message 5")>>

C32_Witness ==
    /\ g = "limited_graph"
    /\ Len(input.messages) = 4
    /\ run.status = "RUNNING"
    /\ run.trace = <<"msg1">>
    /\ BetweenRounds
    /\ run.values.messages =
          <<input.messages[3], input.messages[4], HumanMessage("Message 1")>>

====
